---- MODULE Spec2Model ----
(***************************************************************************)
(* Model of DouyinService (src/src/services/DouyinService.ts) and          *)
(* FileUtils (src/src/utils/fileUtils.ts): link resolution with retry and  *)
(* backoff, video download, audio extraction, transcription and the        *)
(* extractText orchestrator with its temporary-file cleanup.               *)
(*                                                                         *)
(* One top-level call runs per behaviour; Init chooses which public method *)
(* is called and with which inputs.  Every await of an external            *)
(* collaborator (HTTP server, response stream, transcoder, speech API,     *)
(* unlink) is a step whose outcome is chosen nondeterministically.         *)
(* Strings that the code splits, matches or rewrites are sequences of      *)
(* tokens; error messages are sequences of message parts, so that          *)
(* wrapping a message is concatenation.                                    *)
(***************************************************************************)
EXTENDS Integers, Sequences, FiniteSets, TLC

VARIABLES
  call,               \* the public method invoked by the caller
  autoCleanTempFiles, \* DouyinService.autoCleanTempFiles
  shareText,          \* argument of parseShareUrl / extractText / sanitizeFilename
  maxRetries,         \* argument of parseShareUrl / extractText
  pc,                 \* position of the flow of control
  shareUrl,           \* parseShareUrl: urls[0]
  attempt,            \* parseShareUrl: loop counter
  lastError,          \* parseShareUrl: lastError (<<>> is null)
  videoId,            \* parseShareUrl: videoId of the current attempt
  videoInfo,          \* the descriptor (<<>> before it is known)
  httpRequests,       \* number of HTTP requests issued so far
  delays,             \* backoff delays waited so far (setTimeout log)
  attemptLog,         \* what each attempt of parseShareUrl met
  fs,                 \* the file system: existing path |-> content
  events,             \* progress events delivered to the callback
  tempFiles,          \* extractText: tempFiles
  videoPath,          \* downloadVideo / extractText: videoPath
  audioPath,          \* extractAudio / extractText: audioPath
  totalSize,          \* downloadVideo: totalSize
  downloadedSize,     \* downloadVideo: downloadedSize
  chunks,             \* number of data events of the response stream
  ffReports,          \* number of progress reports of the transcoder
  extractedText,      \* extractTextFromAudio / extractText: extractedText
  thrown,             \* the error a stage has thrown (<<>> is none)
  result,             \* value the call returned (<<>> before)
  error,              \* error the call failed with (<<>> is none)
  stageLog,           \* extractText: stages begun, ended and failed, in order
  unlinkLog,          \* fs.unlinkSync calls: path, caller, whether it threw
  cleanups,           \* extractText: number of deleteFiles(tempFiles) calls
  written,            \* paths of the files the call has written
  fs0,                \* the file system when the call was made
  served,             \* what the external collaborators answered to the call
  returned,           \* what the caller's earlier calls returned, in order
  progressCallback,   \* the caller's progressCallback: absent, one that
                      \* returns, one that throws, or one that throws on
                      \* the event of the stage completed
  script,             \* the behaviour of the collaborators, recorded or replayed
  suspended,          \* the calls in progress that wait for an event while
                      \* another call runs: the local state of each
  batch               \* DouyinBatchProcessor: results, errors, and the locals
                      \* of batchProcess

vars == <<call, autoCleanTempFiles, shareText, maxRetries, pc, shareUrl,
          attempt, lastError, videoId, videoInfo, httpRequests, delays,
          attemptLog, fs, events, tempFiles, videoPath, audioPath,
          totalSize, downloadedSize, chunks, ffReports, extractedText,
          thrown, result, error, stageLog, unlinkLog, cleanups, written, fs0,
          served, returned, progressCallback, script, suspended, batch>>

\* What no stage method assigns: the call and its arguments.
callVars == <<call, autoCleanTempFiles, shareText, maxRetries, fs0, returned,
              progressCallback, suspended, batch>>

inputVars == <<callVars, served, script>>

parseVars == <<shareUrl, attempt, lastError, videoId, delays, attemptLog>>

downloadVars == <<totalSize, downloadedSize, chunks>>

fileVars == <<fs, unlinkLog, written>>

(***************************************************************************)
(* Bounds of the model.                                                    *)
(***************************************************************************)
MaxRetriesBound == 5
\* The retry bound of parseShareUrl is explored up to MaxRetriesBound with
\* the share texts without a URL and with one share text that has a URL,
\* and up to MaxRetriesShort with the others.
MaxRetriesShort == 2
MaxPipelineRetries == 1
MaxChunks == 2
MaxFfReports == 2
MaxNameLen == 2
MaxCleanupLen == 2
\* The longest list of links given to batchProcess.
MaxLinks == 3
\* When two runs of extractText are compared, each run gets fewer chunks
\* and fewer transcoder reports.
MaxPairChunks == 1
MaxPairFfReports == 1

(***************************************************************************)
(* Generic helpers.                                                        *)
(***************************************************************************)
Null == <<>>

Min(a, b) == IF a <= b THEN a ELSE b

RECURSIVE Pow2(_)
Pow2(n) == IF n <= 0 THEN 1 ELSE 2 * Pow2(n - 1)

NumStr(n) == IF n < 0 THEN "-" ELSE <<"0", "1", "2", "3", "4", "5", "6", "7", "8", "9">>[n + 1]

(***************************************************************************)
(* Share text: a sequence of tokens.  "http://" and "https://" are the two *)
(* scheme prefixes of urlRegex, "a" stands for any character of the        *)
(* character class of urlRegex, "_" for a character outside of it (a       *)
(* blank, a CJK character).  The characters of a scheme prefix are all in  *)
(* the character class, so a scheme token also continues a URL.            *)
(***************************************************************************)
IsScheme(t) == t \in {"http://", "https://"}

IsUrlChar(t) == t \in {"http://", "https://", "a", "b"}

\* The share texts the caller passes: without any URL (empty, plain text, a
\* scheme with nothing or with a blank after it), and with one or two URLs
\* inside surrounding text.
ShareTexts ==
  { <<>>,
    <<"_", "a", "_">>,
    <<"http://">>,
    <<"a", "https://", "_", "a">>,
    <<"https://", "a">>,
    <<"_", "http://", "a", "_", "https://", "b", "_">> }

\* The share texts passed to extractText: one without and one with a URL.
PipelineTexts ==
  { <<"_", "a", "_">>,
    <<"_", "http://", "a", "_", "https://", "b", "_">> }

\* Faulty variant: a scheme alone counts as a URL.
MatchStartsSchemeOnly(text) == {i \in 1..Len(text) : IsScheme(text[i])}

\* shareText.match(urlRegex): the start positions of a match, i.e. a scheme
\* followed by at least one character of the class.
MatchStarts(text) ==
  {i \in 1..Len(text) : IsScheme(text[i]) /\ i < Len(text) /\ IsUrlChar(text[i + 1])}

\* The greedy end of the match that starts at i.
RECURSIVE MatchEnd(_, _)
MatchEnd(text, j) ==
  IF j < Len(text) /\ IsUrlChar(text[j + 1]) THEN MatchEnd(text, j + 1) ELSE j

\* urls[0], or Null when urls is null or empty.
FirstUrl(text) ==
  IF MatchStarts(text) = {} THEN Null
  ELSE LET i == CHOOSE k \in MatchStarts(text) : \A m \in MatchStarts(text) : k <= m
       IN SubSeq(text, i, MatchEnd(text, i))

(***************************************************************************)
(* The final URL of the redirect chain, as tokens: "/" and "?" are the     *)
(* separators the code splits on.                                          *)
(***************************************************************************)
ResponseUrls == { <<"https:", "/", "/", "host", "/", "video", "/", "v1">>,
                  <<"https:", "/", "/", "host", "/", "video", "/", "v1", "?", "from", "/", "x">> }

\* responseUrl.split("?")[0]
RECURSIVE BeforeQuery(_)
BeforeQuery(url) ==
  IF url = <<>> \/ Head(url) = "?" THEN <<>>
  ELSE <<Head(url)>> \o BeforeQuery(Tail(url))

\* .split("/").pop(): the tokens after the last "/".
RECURSIVE LastSegment(_)
LastSegment(url) ==
  IF \E i \in 1..Len(url) : url[i] = "/"
  THEN LastSegment(Tail(url))
  ELSE url

\* String.prototype.trim: the blanks at both ends are removed.
RECURSIVE TrimStart(_)
TrimStart(str) ==
  IF str # <<>> /\ Head(str) = " " THEN TrimStart(Tail(str)) ELSE str

RECURSIVE TrimEnd(_)
TrimEnd(str) ==
  IF str # <<>> /\ str[Len(str)] = " " THEN TrimEnd(SubSeq(str, 1, Len(str) - 1)) ELSE str

Trim(str) == TrimEnd(TrimStart(str))

\* Faulty variant: the query string is not cut off.
VideoIdOfWithQuery(responseUrl) == LastSegment(Trim(responseUrl))

\* responseUrl.split("?")[0].trim().split("/").pop()
VideoIdOf(responseUrl) == LastSegment(Trim(BeforeQuery(responseUrl)))

\* The share text of a second video, and the URL its link redirects to.
SecondShareText == <<"_", "https://", "b", "_">>

SecondVideoUrl == <<"https:", "/", "/", "host", "/", "video", "/", "v2">>

\* The final URLs the share link redirects to.  The pipeline is explored
\* with one of them; the link of the second video leads to that video.
FinalUrls ==
  IF call = "extractText"
  THEN IF shareUrl = FirstUrl(SecondShareText)
       THEN {SecondVideoUrl}
       ELSE {u \in ResponseUrls : \A i \in 1..Len(u) : u[i] # "?"}
  ELSE ResponseUrls

(***************************************************************************)
(* The video page.  auth: the body contains a login / CAPTCHA keyword;     *)
(* marker: the body matches the window._ROUTER_DATA pattern; json: what    *)
(* the matched text is: not JSON at all, JSON with neither known key,      *)
(* JSON with the video key, the note key or both, or JSON whose item_list  *)
(* is empty.                                                               *)
(***************************************************************************)
JsonKinds == {"invalid", "nokeys", "video", "note", "both", "noitems"}

\* Two calls are in progress at the same time.
Interleaved == suspended # <<>>

\* One call at a time, with collaborators that answer freely: the
\* collaborators are explored with more answers than when two runs are
\* compared or interleaved.
OneCall == script.mode = "off" /\ ~Interleaved

Pages == [auth : BOOLEAN, marker : {FALSE}, json : {"invalid"}]
           \cup [auth : BOOLEAN, marker : {TRUE}, json : JsonKinds]

\* The pipeline is explored with pages whose payload is under the
\* video-page key.
PagesServed ==
  IF call = "extractText"
  THEN {page \in Pages :
          /\ page.json \notin {"note", "both"}
          /\ Interleaved => ~page.auth /\ page.json \in {"invalid", "video"}}
  ELSE Pages

(***************************************************************************)
(* Error messages.                                                         *)
(***************************************************************************)
NoLinkError == <<"no valid share link found">>

ParseFailError == <<"failed to parse video info from HTML">>

NoKeyError == <<"cannot parse video or note info from JSON">>

RequestError == <<"request failed">>

JsonSyntaxError == <<"unexpected token in JSON">>

TypeErrorUndefined == <<"cannot read properties of undefined">>

ExhaustedError(n, last) ==
  <<"resolving the link failed (retried ", NumStr(n), " times): ">>
    \o (IF last = Null THEN <<"unknown error">> ELSE last)

(***************************************************************************)
(* Backoff delays of parseShareUrl, in milliseconds.                       *)
(***************************************************************************)
\* Faulty variant: the exponent counts the attempts that remain.
InterstitialDelayCountdown(a) == Min(1000 * Pow2(maxRetries - a), 5000)

InterstitialDelay(a) == Min(1000 * Pow2(a - 1), 5000)

ParseFailDelay(a) == Min(2000 * Pow2(a - 1), 10000)

\* Faulty variant: the delay after an exception has no ceiling.
ExceptionDelayUncapped(a) == 3000 * Pow2(a - 1)

ExceptionDelay(a) == Min(3000 * Pow2(a - 1), 15000)

(***************************************************************************)
(* The descriptor parseShareUrl builds from the first item of the payload. *)
(***************************************************************************)
PageItem == [desc |-> <<"my", "/", "video">>,
             url |-> <<"https:", "/", "/", "cdn", "/", "playwm", "/", "x">>]

\* FileUtils.sanitizeFilename on tokens: each forbidden character becomes "_".
ForbiddenChars == {"\\", "/", ":", "*", "?", "\"", "<", ">", "|"}

\* Faulty variant: only the first forbidden character is replaced.
sanitizeFilenameFirstOnly(name) ==
  [i \in 1..Len(name) |->
     IF name[i] \in ForbiddenChars /\ \A j \in 1..(i - 1) : name[j] \notin ForbiddenChars
     THEN "_" ELSE name[i]]

sanitizeFilename(name) ==
  [i \in 1..Len(name) |-> IF name[i] \in ForbiddenChars THEN "_" ELSE name[i]]

\* String.prototype.replace with a string pattern: the first occurrence only.
RECURSIVE ReplaceFirst(_, _, _)
ReplaceFirst(s, from, to) ==
  IF s = <<>> THEN <<>>
  ELSE IF Head(s) = from THEN <<to>> \o Tail(s)
  ELSE <<Head(s)>> \o ReplaceFirst(Tail(s), from, to)

\* The first items of the item lists a page may carry: a description with
\* forbidden characters, no description, a blank one, and one with blanks
\* around and inside it; a play address with and without the watermark
\* segment.
PageItems ==
  { PageItem,
    [desc |-> <<>>, url |-> <<"https:", "/", "/", "cdn", "/", "play", "/", "x">>],
    [desc |-> <<" ", " ">>, url |-> PageItem.url],
    [desc |-> <<" ", "a", "?", " ", "b", " ">>, url |-> PageItem.url] }

\* The pipeline is explored with the first of them.
ItemList == IF call = "extractText" THEN {PageItem} ELSE PageItems

\* data.desc?.trim() || `douyin_${videoId}`, the title and the play address.
Descriptor(id, item) ==
  LET desc == IF Trim(item.desc) = <<>> THEN <<"douyin_">> \o id ELSE Trim(item.desc)
  IN [videoId |-> id,
      title |-> sanitizeFilename(desc),
      downloadUrl |-> ReplaceFirst(item.url, "playwm", "play"),
      desc |-> desc]

(***************************************************************************)
(* Paths and the file system.  A path is a sequence of tokens; the content *)
(* of a file is "partial" while it is being written and "full" once the    *)
(* writer has finished.                                                    *)
(***************************************************************************)
downloadDir == <<"downloads", "/">>

\* Faulty variant: the file is named after the title.
FileNameFromTitle(info) == info.title \o <<".mp4">>

\* fileName of downloadVideo: `${videoInfo.videoId}.mp4`
FileName(info) == info.videoId \o <<".mp4">>

\* path.join(this.downloadDir, `${videoInfo.videoId}.mp4`)
VideoPathOf(id) == downloadDir \o id \o <<".mp4">>

\* videoPath.replace(".mp4", ".mp3")
AudioPathOf(path) == ReplaceFirst(path, ".mp4", ".mp3")

Exists(f, p) == p \in DOMAIN f

WriteFile(f, p, c) == [q \in DOMAIN f \cup {p} |-> IF q = p THEN c ELSE f[q]]

Unlink(f, p) == [q \in DOMAIN f \ {p} |-> f[q]]

\* FileUtils.deleteFile: throws is whether fs.unlinkSync throws.
deleteFile(f, p, throws) ==
  IF Exists(f, p)
  THEN IF throws
       THEN [fs |-> f, success |-> FALSE, error |-> "unlink failed", unlinked |-> <<[path |-> p, ok |-> FALSE]>>]
       ELSE [fs |-> Unlink(f, p), success |-> TRUE, error |-> "", unlinked |-> <<[path |-> p, ok |-> TRUE]>>]
  ELSE [fs |-> f, success |-> FALSE, error |-> "File does not exist", unlinked |-> <<>>]

\* Faulty variant: only the first path is deleted.
deleteFilesFirstOnly(f, paths, failing) ==
  IF paths = <<>>
  THEN [fs |-> f, deletedFiles |-> <<>>, errors |-> <<>>, unlinked |-> <<>>]
  ELSE LET one == deleteFile(f, Head(paths), Head(paths) \in failing)
       IN [fs |-> one.fs,
           deletedFiles |-> IF one.success THEN <<Head(paths)>> ELSE <<>>,
           errors |-> IF one.success THEN <<>> ELSE <<<<Head(paths), one.error>>>>,
           unlinked |-> one.unlinked]

\* Faulty variant: the first failure ends the loop.
RECURSIVE deleteFilesStopAtFailure(_, _, _)
deleteFilesStopAtFailure(f, paths, failing) ==
  IF paths = <<>>
  THEN [fs |-> f, deletedFiles |-> <<>>, errors |-> <<>>, unlinked |-> <<>>]
  ELSE LET one == deleteFile(f, Head(paths), Head(paths) \in failing)
           rest == IF one.success
                   THEN deleteFilesStopAtFailure(one.fs, Tail(paths), failing)
                   ELSE [fs |-> one.fs, deletedFiles |-> <<>>, errors |-> <<>>,
                         unlinked |-> <<>>]
       IN [fs |-> rest.fs,
           deletedFiles |-> (IF one.success THEN <<Head(paths)>> ELSE <<>>) \o rest.deletedFiles,
           errors |-> (IF one.success THEN <<>> ELSE <<<<Head(paths), one.error>>>>) \o rest.errors,
           unlinked |-> one.unlinked \o rest.unlinked]

\* FileUtils.deleteFiles: failing is the set of paths whose unlink throws.
RECURSIVE deleteFiles(_, _, _)
deleteFiles(f, paths, failing) ==
  IF paths = <<>>
  THEN [fs |-> f, deletedFiles |-> <<>>, errors |-> <<>>, unlinked |-> <<>>]
  ELSE LET one == deleteFile(f, Head(paths), Head(paths) \in failing)
           rest == deleteFiles(one.fs, Tail(paths), failing)
       IN [fs |-> rest.fs,
           deletedFiles |-> (IF one.success THEN <<Head(paths)>> ELSE <<>>) \o rest.deletedFiles,
           errors |-> (IF one.success THEN <<>> ELSE <<<<Head(paths), one.error>>>>) \o rest.errors,
           unlinked |-> one.unlinked \o rest.unlinked]

Range(s) == {s[i] : i \in 1..Len(s)}

Tag(log, by) == [i \in 1..Len(log) |-> [path |-> log[i].path, ok |-> log[i].ok, by |-> by]]

(***************************************************************************)
(* Progress events and the stages of extractText.                          *)
(***************************************************************************)
Stages == <<"parsing", "downloading", "extracting_audio", "speech_recognition",
            "cleaning", "completed">>

StageIdx(stage) == CHOOSE i \in 1..Len(Stages) : Stages[i] = stage

Event(stage, progress) == [stage |-> stage, progress |-> progress]

\* progressCallback?.(event): the event reaches the callback if there is one.
Deliver(log, event) == IF progressCallback # "absent" THEN Append(log, event) ELSE log

(***************************************************************************)
(* The behaviour of the external collaborators.  A single call takes any   *)
(* answer.  When extractText is called twice to compare the two runs, the  *)
(* first run records the answers of each collaborator in order, and the    *)
(* second run is given the same answers; a collaborator that the first run *)
(* asked less often is free in its further answers.                        *)
(***************************************************************************)
Collaborators == {"share", "page", "response", "stream", "ffmpeg", "transcript", "unlink"}

\* The collaborator an answer comes from.
CollaboratorOf(tag) ==
  CASE tag \in {"share", "share_error"} -> "share"
    [] tag \in {"page", "page_error"} -> "page"
    [] tag \in {"response", "response_error"} -> "response"
    [] tag \in {"data", "finish", "writer_error", "source_error"} -> "stream"
    [] tag \in {"ff_start", "ff_progress", "ff_end", "ff_error"} -> "ffmpeg"
    [] tag \in {"transcript", "transcript_error"} -> "transcript"
    [] tag = "unlink" -> "unlink"

NoAnswers == [c \in Collaborators |-> <<>>]

ScriptOff == [mode |-> "off", log |-> NoAnswers, ofCallback |-> "returns"]

Answer(tag, x) ==
  LET c == CollaboratorOf(tag)
  IN CASE script.mode = "off" -> script' = script
       [] script.mode = "record" ->
            script' = [script EXCEPT !.log[c] = Append(@, [tag |-> tag, x |-> x])]
       [] script.mode = "replay" ->
            IF script.log[c] = <<>>
            THEN script' = script
            ELSE /\ Head(script.log[c]).tag = tag
                 /\ Head(script.log[c]).x = x
                 /\ script' = [script EXCEPT !.log[c] = Tail(@)]

\* Math.round of the non-negative rational n / d.
Round(n, d) == (2 * n + d) \div (2 * d)

(***************************************************************************)
(* How a stage method ends.  Called directly, its result or error is the   *)
(* outcome of the call; called by extractText, control goes on after the   *)
(* await or to the catch block.                                            *)
(***************************************************************************)
Return(stage, value, continuation) ==
  /\ thrown' = thrown
  /\ error' = error
  /\ IF call = "extractText"
     THEN /\ pc' = continuation
          /\ result' = result
          /\ stageLog' = Append(stageLog, <<"end", stage>>)
     ELSE /\ pc' = "done"
          /\ result' = value
          /\ stageLog' = stageLog

Fail(stage, e) ==
  /\ thrown' = e
  /\ result' = result
  /\ IF call = "extractText"
     THEN /\ pc' = "et_catch"
          /\ error' = error
          /\ stageLog' = Append(stageLog, <<"fail", stage>>)
     ELSE /\ pc' = "failed"
          /\ error' = e
          /\ stageLog' = stageLog

(***************************************************************************)
(* parseShareUrl                                                           *)
(***************************************************************************)
\* Nothing has been answered yet: no final URL, no item list, no chunk and
\* no transcription response.
NothingServed ==
  [responseUrl |-> Null, item_list |-> <<>>, chunks |-> <<>>, text |-> <<>>,
   loaderData |-> [video |-> <<>>, note |-> <<>>]]

\* What an attempt met, as recorded in attemptLog.
KindOf(page) ==
  IF page.auth /\ page.marker /\ page.json \in {"video", "note", "both"}
  THEN "interstitial_parsable"
  ELSE IF page.auth THEN "interstitial"
  ELSE IF ~page.marker THEN "marker_absent"
  ELSE IF page.json \in {"video", "note", "both"} THEN "success"
  ELSE IF page.json = "nokeys" THEN "no_keys"
  ELSE "json_error"

Delay(class, ms) == [attempt |-> attempt, class |-> class, ms |-> ms]

\* Faulty variant: the loop stops one attempt early.
LoopOffByOne(a, last) ==
  /\ attempt' = a
  /\ IF a < maxRetries
     THEN /\ pc' = "get_share"
          /\ UNCHANGED <<thrown, result, error, stageLog>>
     ELSE Fail("parsing", ExhaustedError(maxRetries, last))

\* Faulty variant: the loop makes one attempt more.
LoopOneMore(a, last) ==
  /\ attempt' = a
  /\ IF a <= maxRetries + 1
     THEN /\ pc' = "get_share"
          /\ UNCHANGED <<thrown, result, error, stageLog>>
     ELSE Fail("parsing", ExhaustedError(maxRetries, last))

\* The head of the for loop with attempt = a: the body runs while
\* a <= maxRetries; after the loop the retries-exhausted error is thrown.
Loop(a, last) ==
  /\ attempt' = a
  /\ IF a <= maxRetries
     THEN /\ pc' = "get_share"
          /\ UNCHANGED <<thrown, result, error, stageLog>>
     ELSE Fail("parsing", ExhaustedError(maxRetries, last))

\* Faulty variant: the catch block waits after the last attempt too.
CatchAttemptAlwaysWaits(e, kind) ==
  /\ lastError' = e
  /\ served' = [served EXCEPT !.responseUrl = Null]
  /\ attemptLog' = Append(attemptLog, kind)
  /\ delays' = Append(delays, Delay("exception", ExceptionDelay(attempt)))
  /\ Loop(attempt + 1, e)

\* The catch block of the loop body.
CatchAttempt(e, kind) ==
  /\ lastError' = e
  /\ served' = [served EXCEPT !.responseUrl = Null]
  /\ attemptLog' = Append(attemptLog, kind)
  /\ delays' = IF attempt < maxRetries
               THEN Append(delays, Delay("exception", ExceptionDelay(attempt)))
               ELSE delays
  /\ Loop(attempt + 1, e)

\* A backoff inside the try block followed by continue.
Continue(kind, class, ms, last) ==
  /\ lastError' = last
  /\ served' = [served EXCEPT !.responseUrl = Null]
  /\ attemptLog' = Append(attemptLog, kind)
  /\ delays' = Append(delays, Delay(class, ms))
  /\ Loop(attempt + 1, last)

ParseShareUrlEntry ==
  /\ pc = "parse_entry"
  /\ LET url == FirstUrl(shareText)
     IN IF url = Null
        THEN /\ Fail("parsing", NoLinkError)
             /\ UNCHANGED <<shareUrl, attempt, lastError>>
        ELSE /\ shareUrl' = url
             /\ lastError' = Null
             /\ Loop(1, Null)
  /\ UNCHANGED <<inputVars, videoId, delays, attemptLog, videoInfo, httpRequests,
                 fileVars, events, tempFiles, videoPath, audioPath, downloadVars,
                 ffReports, extractedText, cleanups>>

\* axios.get(shareUrl): the request fails, or the redirects end at a URL.
GetShare ==
  /\ pc = "get_share"
  /\ httpRequests' = httpRequests + 1
  /\ \/ /\ CatchAttempt(RequestError, "exception")
        /\ Answer("share_error", TRUE)
        /\ UNCHANGED videoId
     \/ \E u \in FinalUrls :
          /\ Answer("share", u)
          /\ videoId' = VideoIdOf(u)
          /\ served' = [served EXCEPT !.responseUrl = u]
          /\ pc' = "get_page"
          /\ UNCHANGED <<attempt, lastError, delays, attemptLog, thrown, result,
                         error, stageLog>>
  /\ UNCHANGED <<callVars, shareUrl, videoInfo, fileVars, events, tempFiles,
                 videoPath, audioPath, downloadVars, ffReports, extractedText,
                 cleanups>>

\* jsonData.loaderData of a page: what the video-page key and the note-page
\* key hold (<<>> for an absent key).
\* A page with the video-page key alone holds any of the items; under the
\* note-page key, alone or next to the video-page key, two items are tried.
NoteItem == [desc |-> <<"my", "note">>, url |-> PageItem.url]

LoaderData(json) ==
  CASE json = "video" -> {[video |-> <<item>>, note |-> <<>>] : item \in ItemList}
    [] json = "note" -> {[video |-> <<>>, note |-> <<NoteItem>>]}
    [] json = "both" -> {[video |-> <<PageItem>>, note |-> <<NoteItem>>]}

\* Faulty variant: the note-page key is looked up first.
UsedKeyNoteFirst(loaderData) == IF loaderData.note # <<>> THEN "note" ELSE "video"

\* The if / else if over the two keys: the video-page key is looked up first.
UsedKey(loaderData) == IF loaderData.video # <<>> THEN "video" ELSE "note"

\* The rest of the loop body once the page has arrived, needsAuth telling
\* whether the page is taken for an interstitial.
Handle(page, needsAuth) ==
  IF needsAuth /\ attempt < maxRetries
  THEN /\ Continue(KindOf(page), "interstitial", InterstitialDelay(attempt), lastError)
       /\ UNCHANGED videoInfo
  ELSE IF ~page.marker
  THEN /\ IF attempt < maxRetries
          THEN Continue(KindOf(page), "parse_failed", ParseFailDelay(attempt), ParseFailError)
          ELSE CatchAttempt(ParseFailError, KindOf(page))
       /\ UNCHANGED videoInfo
  ELSE IF page.json = "invalid"
  THEN CatchAttempt(JsonSyntaxError, KindOf(page)) /\ UNCHANGED videoInfo
  ELSE IF page.json = "nokeys"
  THEN CatchAttempt(NoKeyError, KindOf(page)) /\ UNCHANGED videoInfo
  ELSE IF page.json = "noitems"
  THEN CatchAttempt(TypeErrorUndefined, KindOf(page)) /\ UNCHANGED videoInfo
  ELSE \E loaderData \in LoaderData(page.json) :
         LET data == loaderData[UsedKey(loaderData)][1]
         IN /\ videoInfo' = Descriptor(videoId, data)
            /\ served' = [served EXCEPT !.item_list = <<data>>,
                                        !.loaderData = loaderData]
            /\ attemptLog' = Append(attemptLog, KindOf(page))
            /\ Return("parsing", Descriptor(videoId, data), "et_parsed")
            /\ UNCHANGED <<attempt, lastError, delays>>

\* Faulty variant: a page that carries the JSON marker is parsed even when
\* it shows a login or CAPTCHA keyword.
HandlePageParsesInterstitial(page) == Handle(page, page.auth /\ ~page.marker)

\* Faulty variant: on the last attempt a page that shows a login or CAPTCHA
\* keyword fails the attempt without being parsed.
HandlePageRejectsInterstitial(page) ==
  IF page.auth /\ attempt >= maxRetries
  THEN CatchAttempt(ParseFailError, KindOf(page)) /\ UNCHANGED videoInfo
  ELSE Handle(page, page.auth)

\* needsAuth: the page shows a login or CAPTCHA keyword.
HandlePage(page) == Handle(page, page.auth)

\* axios.get(pageUrl): the request fails, or a page arrives.
GetPage ==
  /\ pc = "get_page"
  /\ httpRequests' = httpRequests + 1
  /\ \/ /\ CatchAttempt(RequestError, "exception")
        /\ Answer("page_error", TRUE)
        /\ UNCHANGED videoInfo
     \/ \E page \in PagesServed :
          /\ HandlePage(page)
          /\ Answer("page", <<page, served'.loaderData>>)
  /\ UNCHANGED <<callVars, shareUrl, videoId, fileVars, events, tempFiles,
                 videoPath, audioPath, downloadVars, ffReports, extractedText,
                 cleanups>>

(***************************************************************************)
(* downloadVideo                                                           *)
(***************************************************************************)
\* parseInt(content-length || "0"): 0 stands for an absent header.
ContentLengths == IF OneCall THEN {0, 2, 3} ELSE IF Interleaved THEN {2} ELSE {0, 2}

\* Whether fs.unlinkSync throws in the catch block or the error handler.
UnlinkThrows == IF Interleaved THEN {FALSE} ELSE BOOLEAN

\* The sets of paths whose unlink throws when the tracked files are cleaned.
UnlinkFailures(paths) == IF Interleaved THEN {{}} ELSE SUBSET Range(paths)

\* chunk.length of a data event.
ChunkSizes == {1, 2}

DownloadError(cause) == <<"download failed: ">> \o cause

WriteError == <<"write error">>

\* Faulty variant: the quotient is truncated before it is scaled.
DownloadPercentTruncated(downloaded, total) ==
  IF total > 0 THEN (downloaded \div total) * 100 ELSE 0

\* The percent of the data handler.
DownloadPercent(downloaded, total) ==
  IF total > 0 THEN Round(downloaded * 100, total) ELSE 0

\* Up to the request: the existing-file shortcut, or the first event and
\* the GET of the download URL; existing is fs.existsSync(videoPath).
DownloadVideoStart(existing) ==
  /\ pc = "dl_entry"
  /\ LET path == downloadDir \o FileName(videoInfo)
     IN /\ videoPath' = path
        /\ IF existing
           THEN /\ events' = Deliver(events, Event("downloading", 100))
                /\ Return("downloading", path, "et_downloaded")
                /\ UNCHANGED httpRequests
           ELSE /\ events' = Deliver(events, Event("downloading", 0))
                /\ httpRequests' = httpRequests + 1
                /\ pc' = "dl_request"
                /\ UNCHANGED <<thrown, result, error, stageLog>>
  /\ UNCHANGED <<inputVars, parseVars, videoInfo, fileVars, tempFiles, audioPath,
                 downloadVars, ffReports, extractedText, cleanups>>

\* Faulty variant: the existing file is not looked for.
DownloadVideoEntryNoShortcut == DownloadVideoStart(FALSE)

DownloadVideoEntry == DownloadVideoStart(Exists(fs, downloadDir \o FileName(videoInfo)))

\* The caller calls downloadVideo once more after the first call has
\* returned, with a descriptor of the same video: the identifier is the
\* same, the title and the play address are any.
DownloadVideoAgain ==
  /\ call = "downloadVideo" /\ pc = "done" /\ returned = <<>>
  /\ returned' = <<[result |-> result, fs |-> fs, written |-> written]>>
  /\ \E item \in PageItems : videoInfo' = Descriptor(videoInfo.videoId, item)
  /\ fs0' = fs
  /\ pc' = "dl_entry"
  /\ events' = <<>> /\ httpRequests' = 0 /\ videoPath' = Null /\ result' = Null
  /\ totalSize' = 0 /\ downloadedSize' = 0 /\ chunks' = 0
  /\ unlinkLog' = <<>> /\ written' = {} /\ served' = NothingServed
  /\ UNCHANGED <<call, autoCleanTempFiles, shareText, maxRetries, parseVars, fs,
                 tempFiles, audioPath, ffReports, extractedText, thrown, error,
                 stageLog, cleanups, progressCallback, script, suspended, batch>>

\* The request fails (catch block), or the response arrives and the write
\* stream is created.
DownloadResponse ==
  /\ pc = "dl_request"
  /\ \/ \E throws \in UnlinkThrows :
          LET del == deleteFile(fs, videoPath, throws)
          IN /\ fs' = del.fs
             /\ unlinkLog' = unlinkLog \o Tag(del.unlinked, "downloadVideo")
             /\ Fail("downloading", DownloadError(RequestError))
             /\ Answer("response_error", throws)
             /\ UNCHANGED <<downloadVars, written>>
     \/ \E len \in ContentLengths :
          /\ Answer("response", len)
          /\ totalSize' = len
          /\ downloadedSize' = 0
          /\ chunks' = 0
          /\ fs' = WriteFile(fs, videoPath, "partial")
          /\ written' = written \cup {videoPath}
          /\ pc' = "dl_stream"
          /\ UNCHANGED <<unlinkLog, thrown, result, error, stageLog>>
  /\ UNCHANGED <<callVars, served, parseVars, videoInfo, httpRequests, events, tempFiles,
                 videoPath, audioPath, ffReports, extractedText, cleanups>>

\* A data event of the response stream.
DownloadData ==
  /\ pc = "dl_stream"
  /\ chunks < (IF OneCall THEN MaxChunks ELSE MaxPairChunks)
  /\ \E size \in ChunkSizes :
       /\ downloadedSize' = downloadedSize + size
       /\ served' = [served EXCEPT !.chunks = Append(@, size)]
       /\ Answer("data", size)
       /\ events' = Deliver(events,
            Event("downloading", DownloadPercent(downloadedSize + size, totalSize)))
  /\ chunks' = chunks + 1
  /\ UNCHANGED <<callVars, parseVars, videoInfo, httpRequests, fileVars, tempFiles,
                 videoPath, audioPath, totalSize, ffReports, extractedText, cleanups,
                 pc, thrown, result, error, stageLog>>

\* The finish event of the writer.  The handler reads the size of the file
\* with fs.statSync first: when the path is gone (another call has deleted
\* it) that throws inside the handler and the promise is never settled.
DownloadFinish ==
  /\ pc = "dl_stream"
  /\ IF Exists(fs, videoPath)
     THEN /\ fs' = WriteFile(fs, videoPath, "full")
          /\ events' = Deliver(events, Event("downloading", 100))
          /\ Return("downloading", videoPath, "et_downloaded")
     ELSE /\ pc' = "dl_stalled"
          /\ UNCHANGED <<fs, events, thrown, result, error, stageLog>>
  /\ Answer("finish", TRUE)
  /\ UNCHANGED <<callVars, served, parseVars, videoInfo, httpRequests, unlinkLog, written,
                 tempFiles, videoPath, audioPath, downloadVars, ffReports,
                 extractedText, cleanups>>

\* Faulty variant: the error handler of the writer leaves the file.
DownloadWriterErrorKeepsFile ==
  /\ pc = "dl_stream"
  /\ Fail("downloading", DownloadError(WriteError))
  /\ UNCHANGED <<inputVars, parseVars, videoInfo, httpRequests, fileVars, events,
                 tempFiles, videoPath, audioPath, downloadVars, ffReports,
                 extractedText, cleanups>>

\* The error event of the writer.
DownloadWriterError ==
  /\ pc = "dl_stream"
  /\ \E throws \in UnlinkThrows :
       LET del == deleteFile(fs, videoPath, throws)
       IN /\ fs' = del.fs
          /\ unlinkLog' = unlinkLog \o Tag(del.unlinked, "downloadVideo")
          /\ Answer("writer_error", throws)
  /\ written' = written
  /\ Fail("downloading", DownloadError(WriteError))
  /\ UNCHANGED <<callVars, served, parseVars, videoInfo, httpRequests, events, tempFiles,
                 videoPath, audioPath, downloadVars, ffReports, extractedText,
                 cleanups>>

\* The response stream fails: nothing listens to its error event and the
\* writer is never ended, so the promise is never settled.
DownloadSourceError ==
  /\ pc = "dl_stream"
  /\ pc' = "dl_stalled"
  /\ Answer("source_error", TRUE)
  /\ UNCHANGED <<callVars, served, parseVars, videoInfo, httpRequests, fileVars, events,
                 tempFiles, videoPath, audioPath, downloadVars, ffReports,
                 extractedText, cleanups, thrown, result, error, stageLog>>

(***************************************************************************)
(* extractAudio                                                            *)
(***************************************************************************)
\* progress.percent of a progress report; 0 also stands for undefined.
FfPercents == IF OneCall THEN {0, 50, 100} ELSE {50}

ExtractionError(cause) == <<"audio extraction failed: ">> \o cause

MissingVideoError(path) == <<"video file does not exist: ">> \o path

TranscoderError == <<"ffmpeg exited with an error">>

\* Faulty variant: the last event carries the stage of downloadVideo.
AudioEventMislabelled(percent) ==
  Event(IF percent = 100 THEN "downloading" ELSE "extracting_audio", percent)

\* The events extractAudio delivers.
AudioEvent(percent) == Event("extracting_audio", percent)

\* The input check, the first event and ffmpegCommand.save(audioPath).
\* Faulty variant: the first event is delivered before the input is checked.
ExtractAudioEntryEventFirst ==
  /\ pc = "ea_entry"
  /\ audioPath' = AudioPathOf(videoPath)
  /\ events' = Deliver(events, AudioEvent(0))
  /\ IF ~Exists(fs, videoPath)
     THEN Fail("extracting_audio", MissingVideoError(videoPath))
     ELSE /\ pc' = "ea_spawned"
          /\ UNCHANGED <<thrown, result, error, stageLog>>
  /\ ffReports' = 0
  /\ UNCHANGED <<inputVars, parseVars, videoInfo, httpRequests, fileVars, tempFiles,
                 videoPath, downloadVars, extractedText, cleanups>>

\* The input check, then the first event and the transcoder command.
ExtractAudioEntry ==
  /\ pc = "ea_entry"
  /\ audioPath' = AudioPathOf(videoPath)
  /\ IF ~Exists(fs, videoPath)
     THEN /\ Fail("extracting_audio", MissingVideoError(videoPath))
          /\ UNCHANGED events
     ELSE /\ events' = Deliver(events, AudioEvent(0))
          /\ pc' = "ea_spawned"
          /\ UNCHANGED <<thrown, result, error, stageLog>>
  /\ ffReports' = 0
  /\ UNCHANGED <<inputVars, parseVars, videoInfo, httpRequests, fileVars, tempFiles,
                 videoPath, downloadVars, extractedText, cleanups>>

\* The start event: the transcoder runs and writes its output file.  It
\* refuses to write its output over its input and exits with an error.
FfmpegStart ==
  /\ pc = "ea_spawned"
  /\ events' = Deliver(events, AudioEvent(10))
  /\ IF audioPath = videoPath
     THEN UNCHANGED <<fs, written>>
     ELSE /\ fs' = WriteFile(fs, audioPath, "partial")
          /\ written' = written \cup {audioPath}
  /\ pc' = "ea_running"
  /\ Answer("ff_start", TRUE)
  /\ UNCHANGED <<callVars, served, parseVars, videoInfo, httpRequests, unlinkLog, tempFiles,
                 videoPath, audioPath, downloadVars, ffReports, extractedText,
                 cleanups, thrown, result, error, stageLog>>

\* A progress event.
FfmpegProgress ==
  /\ pc = "ea_running"
  /\ ffReports < (IF OneCall THEN MaxFfReports ELSE MaxPairFfReports)
  /\ \E percent \in FfPercents :
       /\ events' = Deliver(events, AudioEvent(percent))
       /\ Answer("ff_progress", percent)
  /\ ffReports' = ffReports + 1
  /\ UNCHANGED <<callVars, served, parseVars, videoInfo, httpRequests, fileVars, tempFiles,
                 videoPath, audioPath, downloadVars, extractedText, cleanups,
                 pc, thrown, result, error, stageLog>>

\* The end event; the handler allows for an output file that is not there.
FfmpegEnd ==
  /\ pc = "ea_running"
  /\ audioPath # videoPath
  /\ \E produced \in BOOLEAN :
       /\ fs' = IF produced THEN WriteFile(fs, audioPath, "full") ELSE Unlink(fs, audioPath)
       /\ Answer("ff_end", produced)
  /\ events' = Deliver(events, AudioEvent(100))
  /\ Return("extracting_audio", audioPath, "et_audio")
  /\ UNCHANGED <<callVars, served, parseVars, videoInfo, httpRequests, unlinkLog, written, tempFiles,
                 videoPath, audioPath, downloadVars, ffReports, extractedText,
                 cleanups>>

\* Faulty variant: the error handler leaves the output file.
FfmpegErrorKeepsOutput ==
  /\ pc \in {"ea_spawned", "ea_running"}
  /\ Fail("extracting_audio", ExtractionError(TranscoderError))
  /\ UNCHANGED <<inputVars, parseVars, videoInfo, httpRequests, fileVars, events,
                 tempFiles, videoPath, audioPath, downloadVars, ffReports,
                 extractedText, cleanups>>

\* The error event, before or after the transcoder has started.
FfmpegError ==
  /\ pc \in {"ea_spawned", "ea_running"}
  /\ \E throws \in UnlinkThrows :
       LET del == deleteFile(fs, audioPath, throws)
       IN /\ fs' = del.fs
          /\ unlinkLog' = unlinkLog \o Tag(del.unlinked, "extractAudio")
          /\ Answer("ff_error", throws)
  /\ written' = written
  /\ Fail("extracting_audio", ExtractionError(TranscoderError))
  /\ UNCHANGED <<callVars, served, parseVars, videoInfo, httpRequests, events, tempFiles,
                 videoPath, audioPath, downloadVars, ffReports, extractedText,
                 cleanups>>

(***************************************************************************)
(* extractTextFromAudio                                                    *)
(***************************************************************************)
\* response.data.text: absent (Null), empty, or a transcript.
ApiTexts == {Null, <<"">>, <<"hello world">>}

\* The texts the API answers with.
TextsServed == IF Interleaved THEN {<<"hello world">>} ELSE ApiTexts

Placeholder == <<"no text recognised">>

TranscriptionError(cause) == <<"speech recognition failed: ">> \o cause

MissingAudioError(path) == <<"audio file does not exist: ">> \o path

\* Faulty variant: only an absent field gives the placeholder.
TextOrPlaceholderAbsentOnly(text) == IF text = Null THEN Placeholder ELSE text

\* response.data.text || placeholder
TextOrPlaceholder(text) == IF text = Null \/ text = <<"">> THEN Placeholder ELSE text

\* The input check, the first event and the POST to the speech API.
TranscribeEntry ==
  /\ pc = "tr_entry"
  /\ IF ~Exists(fs, audioPath)
     THEN /\ Fail("speech_recognition", MissingAudioError(audioPath))
          /\ UNCHANGED <<events, httpRequests>>
     ELSE /\ events' = Deliver(events, Event("speech_recognition", 0))
          /\ httpRequests' = httpRequests + 1
          /\ pc' = "tr_request"
          /\ UNCHANGED <<thrown, result, error, stageLog>>
  /\ UNCHANGED <<inputVars, parseVars, videoInfo, fileVars, tempFiles, videoPath,
                 audioPath, downloadVars, ffReports, extractedText, cleanups>>

\* Faulty variant: a failed API call is repeated once.
TranscribeResponseRetries ==
  /\ pc = "tr_request"
  /\ \/ /\ IF httpRequests < 2
           THEN /\ httpRequests' = httpRequests + 1
                /\ UNCHANGED <<pc, thrown, result, error, stageLog>>
           ELSE /\ Fail("speech_recognition", TranscriptionError(RequestError))
                /\ UNCHANGED httpRequests
        /\ Answer("transcript_error", TRUE)
        /\ UNCHANGED <<events, extractedText, served>>
     \/ \E text \in TextsServed :
          /\ Answer("transcript", text)
          /\ extractedText' = TextOrPlaceholder(text)
          /\ served' = [served EXCEPT !.text = <<text>>]
          /\ events' = Deliver(events, Event("speech_recognition", 100))
          /\ Return("speech_recognition", TextOrPlaceholder(text), "et_text")
          /\ UNCHANGED httpRequests
  /\ UNCHANGED <<callVars, parseVars, videoInfo, fileVars, tempFiles,
                 videoPath, audioPath, downloadVars, ffReports, cleanups>>

\* The API call fails (catch block), or the response arrives.
TranscribeResponse ==
  /\ pc = "tr_request"
  /\ \/ /\ Fail("speech_recognition", TranscriptionError(RequestError))
        /\ Answer("transcript_error", TRUE)
        /\ UNCHANGED <<events, extractedText, served>>
     \/ \E text \in TextsServed :
          /\ Answer("transcript", text)
          /\ extractedText' = TextOrPlaceholder(text)
          /\ served' = [served EXCEPT !.text = <<text>>]
          /\ events' = Deliver(events, Event("speech_recognition", 100))
          /\ Return("speech_recognition", TextOrPlaceholder(text), "et_text")
  /\ UNCHANGED <<callVars, parseVars, videoInfo, httpRequests, fileVars, tempFiles,
                 videoPath, audioPath, downloadVars, ffReports, cleanups>>

(***************************************************************************)
(* extractText                                                             *)
(***************************************************************************)
Begin(stage) == <<"begin", stage>>

\* Faulty variant: the catch block wraps the message.
RethrowWrapped(e) == <<"text extraction failed: ">> \o e

\* throw error in the catch block: the caught error itself.
Rethrow(e) == e

\* What a throwing progressCallback throws.
CallbackError == <<"error thrown by the progress callback">>

\* The first event and the call of parseShareUrl.  The callback is called
\* inside the try block: what it throws is caught like the error of a stage.
ExtractTextEntry ==
  /\ pc = "et_entry"
  /\ tempFiles' = <<>>
  /\ events' = Deliver(events, Event("parsing", 0))
  /\ IF progressCallback = "throws"
     THEN /\ thrown' = CallbackError
          /\ stageLog' = stageLog
          /\ pc' = "et_catch"
     ELSE /\ thrown' = thrown
          /\ stageLog' = Append(stageLog, Begin("parsing"))
          /\ pc' = "parse_entry"
  /\ UNCHANGED <<inputVars, parseVars, videoInfo, httpRequests, fileVars, videoPath,
                 audioPath, downloadVars, ffReports, extractedText, cleanups,
                 result, error>>

\* After await parseShareUrl: the second event and the call of downloadVideo.
AfterParse ==
  /\ pc = "et_parsed"
  /\ events' = Deliver(events, Event("parsing", 100))
  /\ stageLog' = Append(stageLog, Begin("downloading"))
  /\ pc' = "dl_entry"
  /\ UNCHANGED <<inputVars, parseVars, videoInfo, httpRequests, fileVars, tempFiles,
                 videoPath, audioPath, downloadVars, ffReports, extractedText,
                 cleanups, thrown, result, error>>

\* After await downloadVideo: track the video, call extractAudio.
AfterDownload ==
  /\ pc = "et_downloaded"
  /\ tempFiles' = Append(tempFiles, videoPath)
  /\ stageLog' = Append(stageLog, Begin("extracting_audio"))
  /\ pc' = "ea_entry"
  /\ UNCHANGED <<inputVars, parseVars, videoInfo, httpRequests, fileVars, events,
                 videoPath, audioPath, downloadVars, ffReports, extractedText,
                 cleanups, thrown, result, error>>

\* After await extractAudio: track the audio, call extractTextFromAudio.
AfterAudio ==
  /\ pc = "et_audio"
  /\ tempFiles' = Append(tempFiles, audioPath)
  /\ stageLog' = Append(stageLog, Begin("speech_recognition"))
  /\ pc' = "tr_entry"
  /\ UNCHANGED <<inputVars, parseVars, videoInfo, httpRequests, fileVars, events,
                 videoPath, audioPath, downloadVars, ffReports, extractedText,
                 cleanups, thrown, result, error>>

\* Step 5 of extractText and its end, with clean for the configuration.  The
\* last event is delivered inside the try block after the cleanup: when the
\* callback throws on it, the catch block is entered.
Finish(clean) ==
  /\ pc = "et_text"
  /\ IF clean
     THEN \E failing \in UnlinkFailures(tempFiles) :
            LET del == deleteFiles(fs, tempFiles, failing)
            IN /\ fs' = del.fs
               /\ unlinkLog' = unlinkLog \o Tag(del.unlinked, "extractText")
               /\ written' = written
               /\ cleanups' = cleanups + 1
               /\ Answer("unlink", failing)
               /\ events' = Deliver(Deliver(events, Event("cleaning", 0)), Event("completed", 100))
               /\ stageLog' = stageLog \o <<Begin("cleaning"), <<"end", "cleaning">>,
                                              Begin("completed")>>
     ELSE /\ events' = Deliver(events, Event("completed", 100))
          /\ stageLog' = Append(stageLog, Begin("completed"))
          /\ Answer("unlink", {})
          /\ UNCHANGED <<fileVars, cleanups>>
  /\ IF progressCallback = "throws_completed"
     THEN /\ thrown' = CallbackError
          /\ result' = result
          /\ pc' = "et_catch"
     ELSE /\ thrown' = thrown
          /\ result' = <<videoInfo, extractedText>>
          /\ pc' = "done"
  /\ UNCHANGED <<callVars, served, parseVars, videoInfo, httpRequests, tempFiles, videoPath,
                 audioPath, downloadVars, ffReports, extractedText, error>>

\* Faulty variant: the cleanup ignores the configuration.
AfterTranscriptionAlwaysClean == Finish(TRUE)

\* After await extractTextFromAudio: the cleanup according to the
\* configuration, the last event and the result.
AfterTranscription == Finish(autoCleanTempFiles)

\* The catch block, with clean for the configuration.
Catch(clean) ==
  /\ pc = "et_catch"
  /\ IF clean
     THEN \E failing \in UnlinkFailures(tempFiles) :
            LET del == deleteFiles(fs, tempFiles, failing)
            IN /\ fs' = del.fs
               /\ unlinkLog' = unlinkLog \o Tag(del.unlinked, "extractText")
               /\ written' = written
               /\ cleanups' = cleanups + 1
               /\ Answer("unlink", failing)
     ELSE Answer("unlink", {}) /\ UNCHANGED <<fileVars, cleanups>>
  /\ error' = Rethrow(thrown)
  /\ pc' = "failed"
  /\ UNCHANGED <<callVars, served, parseVars, videoInfo, httpRequests, events, tempFiles,
                 videoPath, audioPath, downloadVars, ffReports, extractedText,
                 thrown, result, stageLog>>

\* Faulty variant: the catch block skips the cleanup.
CatchBlockNoCleanup == Catch(FALSE)

\* Faulty variant: the catch block returns what the run has so far.
CatchBlockReturnsPartial ==
  /\ pc = "et_catch"
  /\ result' = <<videoInfo, extractedText>>
  /\ events' = Deliver(events, Event("completed", 100))
  /\ pc' = "done"
  /\ UNCHANGED <<inputVars, parseVars, videoInfo, httpRequests, fileVars, tempFiles,
                 videoPath, audioPath, downloadVars, ffReports, extractedText,
                 cleanups, thrown, error, stageLog>>

\* Faulty variant: a file that cannot be deleted makes the cleanup throw,
\* and that error replaces the one of the stage.
CatchBlockCleanupThrows ==
  /\ pc = "et_catch"
  /\ \E failing \in UnlinkFailures(tempFiles) :
       LET del == deleteFiles(fs, tempFiles, failing)
       IN /\ fs' = del.fs
          /\ unlinkLog' = unlinkLog \o Tag(del.unlinked, "extractText")
          /\ written' = written
          /\ cleanups' = cleanups + 1
          /\ Answer("unlink", failing)
          /\ error' = IF del.errors # <<>> THEN <<"unlink failed">> ELSE Rethrow(thrown)
  /\ pc' = "failed"
  /\ UNCHANGED <<callVars, served, parseVars, videoInfo, httpRequests, events, tempFiles,
                 videoPath, audioPath, downloadVars, ffReports, extractedText,
                 thrown, result, stageLog>>

\* The catch block: the cleanup according to the configuration, then the
\* error is thrown again.
CatchBlock == Catch(autoCleanTempFiles)

(***************************************************************************)
(* FileUtils.sanitizeFilename, called on its own.                          *)
(***************************************************************************)
\* The characters of a file name: the nine forbidden ones, a letter and the
\* underscore.
NameChars == ForbiddenChars \cup {"a", "_"}

FileNames == UNION {[1..n -> NameChars] : n \in 0..MaxNameLen}

SanitizeFilenameCall ==
  /\ call = "sanitizeFilename" /\ pc = "sf_entry"
  /\ result' = sanitizeFilename(shareText)
  /\ pc' = "done"
  /\ UNCHANGED <<inputVars, parseVars, videoInfo, httpRequests, fileVars, events,
                 tempFiles, videoPath, audioPath, downloadVars, ffReports,
                 extractedText, cleanups, thrown, error, stageLog>>

\* The caller passes the name it got back to sanitizeFilename once more.
SanitizeFilenameAgain ==
  /\ call = "sanitizeFilename" /\ pc = "done" /\ returned = <<>>
  /\ returned' = <<[result |-> result, fs |-> fs, written |-> written]>>
  /\ result' = sanitizeFilename(result)
  /\ UNCHANGED <<call, autoCleanTempFiles, shareText, maxRetries, fs0, served,
                 progressCallback, script, suspended, batch, parseVars, videoInfo,
                 httpRequests, fileVars, events, tempFiles,
                 videoPath, audioPath, downloadVars, ffReports, extractedText,
                 cleanups, thrown, error, stageLog, pc>>

(***************************************************************************)
(* DouyinService.cleanupTempFiles, called on its own.                      *)
(***************************************************************************)
\* The paths a caller asks to clean: the video and the audio of a run, in
\* any order and possibly more than once.
CleanupPaths == {downloadDir \o <<"v1", ".mp4">>, downloadDir \o <<"v1", ".mp3">>}

PathLists == UNION {[1..n -> CleanupPaths] : n \in 0..MaxCleanupLen}

\* cleanupTempFiles(tempFiles): FileUtils.deleteFiles and its result.
CleanupTempFilesCall ==
  /\ call = "cleanupTempFiles" /\ pc = "ct_entry"
  /\ \E paths \in PathLists :
       /\ tempFiles' = paths
       /\ \E failing \in SUBSET Range(paths) :
            LET del == deleteFiles(fs, paths, failing)
            IN /\ fs' = del.fs
               /\ unlinkLog' = unlinkLog \o Tag(del.unlinked, "cleanupTempFiles")
               /\ result' = <<del.deletedFiles, del.errors>>
  /\ written' = written
  /\ pc' = "done"
  /\ UNCHANGED <<inputVars, parseVars, videoInfo, httpRequests, events,
                 videoPath, audioPath, downloadVars, ffReports,
                 extractedText, cleanups, thrown, error, stageLog>>

(***************************************************************************)
(* The initial states: the call and its arguments, and the files that are  *)
(* in the download directory when the call is made.                        *)
(***************************************************************************)
SomeVideoId == <<"v1">>

\* The video may be absent, complete, or left incomplete by an earlier
\* interrupted download; the audio of an earlier run may be there.
InitialFs ==
  LET video == VideoPathOf(SomeVideoId)
      audio == AudioPathOf(video)
  IN {[p \in S |-> IF p = video THEN c ELSE "full"] :
        S \in SUBSET {video, audio}, c \in {"full", "partial"}}

EmptyFs == [p \in {} |-> "full"]

InitCallState ==
  /\ shareUrl = Null /\ attempt = 0 /\ lastError = Null /\ videoId = Null
  /\ httpRequests = 0 /\ delays = <<>> /\ attemptLog = <<>>
  /\ events = <<>> /\ tempFiles = <<>>
  /\ totalSize = 0 /\ downloadedSize = 0 /\ chunks = 0 /\ ffReports = 0
  /\ extractedText = Null /\ thrown = Null /\ result = Null /\ error = Null
  /\ stageLog = <<>> /\ unlinkLog = <<>> /\ cleanups = 0 /\ written = {}
  /\ fs0 = fs /\ served = NothingServed /\ returned = <<>>

\* No batch is being processed.
NoBatch == [pc |-> "idle", links |-> <<>>, delay |-> 0, i |-> 0, results |-> <<>>,
            errors |-> <<>>, delays |-> <<>>, trace |-> <<>>]

\* One call at a time: no other call is in progress.
InitLocals == InitCallState /\ suspended = <<>> /\ batch = NoBatch

InitParseShareUrl ==
  /\ call = "parseShareUrl"
  /\ autoCleanTempFiles = TRUE
  /\ shareText \in ShareTexts
  /\ maxRetries \in -1..(IF FirstUrl(shareText) \in {Null, shareText}
                          THEN MaxRetriesBound ELSE MaxRetriesShort)
  /\ videoInfo = Null /\ videoPath = Null /\ audioPath = Null
  /\ fs = EmptyFs
  /\ pc = "parse_entry"

InitDownloadVideo ==
  /\ call = "downloadVideo"
  /\ autoCleanTempFiles = TRUE
  /\ shareText = <<>>
  /\ maxRetries = 3
  /\ videoInfo = Descriptor(SomeVideoId, PageItem)
  /\ videoPath = Null /\ audioPath = Null
  /\ fs \in InitialFs
  /\ pc = "dl_entry"

\* The video paths a caller passes to extractAudio: the path downloadVideo
\* returns, and the path of a video whose name does not contain ".mp4".
VideoInputs == {VideoPathOf(SomeVideoId), downloadDir \o <<"v1", ".mov">>}

InitExtractAudio ==
  /\ call = "extractAudio"
  /\ autoCleanTempFiles = TRUE
  /\ shareText = <<>>
  /\ maxRetries = 3
  /\ videoInfo = Null
  /\ videoPath \in VideoInputs /\ audioPath = Null
  /\ fs \in IF videoPath = VideoPathOf(SomeVideoId)
            THEN InitialFs
            ELSE {EmptyFs, [p \in {videoPath} |-> "full"]}
  /\ pc = "ea_entry"

InitExtractTextFromAudio ==
  /\ call = "extractTextFromAudio"
  /\ autoCleanTempFiles = TRUE
  /\ shareText = <<>>
  /\ maxRetries = 3
  /\ videoInfo = Null
  /\ videoPath = Null /\ audioPath = AudioPathOf(VideoPathOf(SomeVideoId))
  /\ fs \in InitialFs
  /\ pc = "tr_entry"

InitSanitizeFilename ==
  /\ call = "sanitizeFilename"
  /\ autoCleanTempFiles = TRUE
  /\ shareText \in FileNames
  /\ maxRetries = 3
  /\ videoInfo = Null /\ videoPath = Null /\ audioPath = Null
  /\ fs = EmptyFs
  /\ pc = "sf_entry"

InitCleanupTempFiles ==
  /\ call = "cleanupTempFiles"
  /\ autoCleanTempFiles \in BOOLEAN
  /\ shareText = <<>>
  /\ maxRetries = 3
  /\ videoInfo = Null /\ videoPath = Null /\ audioPath = Null
  /\ fs \in InitialFs
  /\ pc = "ct_entry"

InitExtractText ==
  /\ call = "extractText"
  /\ autoCleanTempFiles \in BOOLEAN
  /\ shareText \in PipelineTexts
  /\ maxRetries \in 0..MaxPipelineRetries
  /\ videoInfo = Null /\ videoPath = Null /\ audioPath = Null
  /\ fs \in InitialFs
  /\ pc = "et_entry"

Init ==
  /\ \/ InitParseShareUrl \/ InitDownloadVideo \/ InitExtractAudio
     \/ InitExtractTextFromAudio \/ InitExtractText \/ InitSanitizeFilename
     \/ InitCleanupTempFiles
  /\ InitLocals
  /\ progressCallback = "returns"
  /\ script = ScriptOff

Next ==
  \/ ParseShareUrlEntry \/ GetShare \/ GetPage
  \/ DownloadVideoEntry \/ DownloadVideoAgain
  \/ DownloadResponse \/ DownloadData \/ DownloadFinish
  \/ DownloadWriterError \/ DownloadSourceError
  \/ ExtractAudioEntry \/ FfmpegStart \/ FfmpegProgress \/ FfmpegEnd \/ FfmpegError
  \/ TranscribeEntry \/ TranscribeResponse
  \/ ExtractTextEntry \/ AfterParse \/ AfterDownload \/ AfterAudio
  \/ AfterTranscription \/ CatchBlock
  \/ SanitizeFilenameCall \/ SanitizeFilenameAgain
  \/ CleanupTempFilesCall

Spec == Init /\ [][Next]_vars

(***************************************************************************)
(* One call of downloadVideo, every step of which is eventually taken: a   *)
(* pending request is answered, the streams keep emitting their events.    *)
(***************************************************************************)
InitDownload ==
  /\ InitDownloadVideo
  /\ InitLocals
  /\ progressCallback \in {"returns", "absent"}
  /\ script = ScriptOff

NextDownload ==
  \/ DownloadVideoEntry
  \/ DownloadResponse \/ DownloadData \/ DownloadFinish
  \/ DownloadWriterError \/ DownloadSourceError

SpecDownload == InitDownload /\ [][NextDownload]_vars /\ WF_vars(NextDownload)

(***************************************************************************)
(* One run of extractText with any progressCallback: one that returns, one *)
(* that throws on every event, one that throws on the event of the stage   *)
(* completed, or none.                                                     *)
(***************************************************************************)
Callbacks == {"absent", "returns", "throws", "throws_completed"}

InitCallbacks ==
  /\ InitExtractText
  /\ InitLocals
  /\ progressCallback \in Callbacks
  /\ script = ScriptOff

NextCallbacks ==
  \/ ExtractTextEntry \/ ParseShareUrlEntry \/ GetShare \/ GetPage
  \/ AfterParse \/ DownloadVideoEntry
  \/ DownloadResponse \/ DownloadData \/ DownloadFinish
  \/ DownloadWriterError \/ DownloadSourceError
  \/ AfterDownload \/ ExtractAudioEntry
  \/ FfmpegStart \/ FfmpegProgress \/ FfmpegEnd \/ FfmpegError
  \/ AfterAudio \/ TranscribeEntry \/ TranscribeResponse
  \/ AfterTranscription \/ CatchBlock

SpecCallbacks == InitCallbacks /\ [][NextCallbacks]_vars

(***************************************************************************)
(* extractText called twice on the same inputs and the same file system,   *)
(* first with a progressCallback and then without one, the collaborators   *)
(* behaving the same way in both runs.                                     *)
(***************************************************************************)
\* What a run of extractText did, as its caller and the disk see it.
Outcome == [result |-> result, error |-> error, fs |-> fs, stageLog |-> stageLog,
            settled |-> pc]

\* The first run has settled: the disk is put back as it was and extractText
\* is called again with the same arguments and no progressCallback.
ExtractTextAgain ==
  /\ call = "extractText"
  /\ script.mode = "record"
  /\ pc \in {"done", "failed"}
  /\ returned' = <<Outcome>>
  /\ script' = [script EXCEPT !.mode = "replay"]
  /\ progressCallback' = "absent"
  /\ fs' = fs0
  /\ pc' = "et_entry"
  /\ shareUrl' = Null /\ attempt' = 0 /\ lastError' = Null /\ videoId' = Null
  /\ httpRequests' = 0 /\ delays' = <<>> /\ attemptLog' = <<>>
  /\ events' = <<>> /\ tempFiles' = <<>>
  /\ videoInfo' = Null /\ videoPath' = Null /\ audioPath' = Null
  /\ totalSize' = 0 /\ downloadedSize' = 0 /\ chunks' = 0 /\ ffReports' = 0
  /\ extractedText' = Null /\ thrown' = Null /\ result' = Null /\ error' = Null
  /\ stageLog' = <<>> /\ unlinkLog' = <<>> /\ cleanups' = 0 /\ written' = {}
  /\ served' = NothingServed
  /\ UNCHANGED <<call, autoCleanTempFiles, shareText, maxRetries, fs0, suspended,
                 batch>>

\* The disk before the two runs: empty, or holding the video that an
\* earlier interrupted download left incomplete.
PairFs ==
  {EmptyFs, [p \in {VideoPathOf(SomeVideoId)} |-> "partial"]}

InitPair ==
  /\ call = "extractText"
  /\ autoCleanTempFiles \in BOOLEAN
  /\ shareText \in PipelineTexts
  /\ maxRetries = 1
  /\ videoInfo = Null /\ videoPath = Null /\ audioPath = Null
  /\ fs \in PairFs
  /\ pc = "et_entry"
  /\ InitLocals
  /\ progressCallback \in {"returns", "throws"}
  /\ script = [mode |-> "record", log |-> NoAnswers, ofCallback |-> progressCallback]

NextPair ==
  \/ ExtractTextEntry \/ ParseShareUrlEntry \/ GetShare \/ GetPage
  \/ AfterParse \/ DownloadVideoEntry
  \/ DownloadResponse \/ DownloadData \/ DownloadFinish
  \/ DownloadWriterError \/ DownloadSourceError
  \/ AfterDownload \/ ExtractAudioEntry
  \/ FfmpegStart \/ FfmpegProgress \/ FfmpegEnd \/ FfmpegError
  \/ AfterAudio \/ TranscribeEntry \/ TranscribeResponse
  \/ AfterTranscription \/ CatchBlock
  \/ ExtractTextAgain

SpecPair == InitPair /\ [][NextPair]_vars

(***************************************************************************)
(* Calls in progress at the same time.  A call runs from one await or      *)
(* event to the next without interruption; between two such steps the      *)
(* event loop may run a step of another call.  The arguments and the local *)
(* variables belong to the call; the disk and the fields of the service    *)
(* are shared by the calls.                                                *)
(***************************************************************************)
\* The arguments and local variables of the running call, and what it has
\* observed and done so far.
Locals ==
  [call |-> call, shareText |-> shareText, maxRetries |-> maxRetries,
   progressCallback |-> progressCallback, pc |-> pc, shareUrl |-> shareUrl,
   attempt |-> attempt, lastError |-> lastError, videoId |-> videoId,
   videoInfo |-> videoInfo, httpRequests |-> httpRequests, delays |-> delays,
   attemptLog |-> attemptLog, events |-> events, tempFiles |-> tempFiles,
   videoPath |-> videoPath, audioPath |-> audioPath, totalSize |-> totalSize,
   downloadedSize |-> downloadedSize, chunks |-> chunks, ffReports |-> ffReports,
   extractedText |-> extractedText, thrown |-> thrown, result |-> result,
   error |-> error, stageLog |-> stageLog, unlinkLog |-> unlinkLog,
   cleanups |-> cleanups, written |-> written, served |-> served]

\* The running call waits for its next event and the event loop turns to
\* the other call, which has an event pending.
Resume ==
  /\ suspended # <<>>
  /\ suspended[1].pc \notin {"done", "failed", "dl_stalled"}
  /\ suspended' = <<Locals>>
  /\ LET other == suspended[1]
     IN /\ call' = other.call /\ shareText' = other.shareText
        /\ maxRetries' = other.maxRetries
        /\ progressCallback' = other.progressCallback
        /\ pc' = other.pc /\ shareUrl' = other.shareUrl
        /\ attempt' = other.attempt /\ lastError' = other.lastError
        /\ videoId' = other.videoId /\ videoInfo' = other.videoInfo
        /\ httpRequests' = other.httpRequests /\ delays' = other.delays
        /\ attemptLog' = other.attemptLog /\ events' = other.events
        /\ tempFiles' = other.tempFiles /\ videoPath' = other.videoPath
        /\ audioPath' = other.audioPath /\ totalSize' = other.totalSize
        /\ downloadedSize' = other.downloadedSize /\ chunks' = other.chunks
        /\ ffReports' = other.ffReports /\ extractedText' = other.extractedText
        /\ thrown' = other.thrown /\ result' = other.result
        /\ error' = other.error /\ stageLog' = other.stageLog
        /\ unlinkLog' = other.unlinkLog /\ cleanups' = other.cleanups
        /\ written' = other.written /\ served' = other.served
  /\ UNCHANGED <<autoCleanTempFiles, fs, fs0, returned, script, batch>>

\* The calls in progress: the running one and the suspended one.
Calls == <<Locals>> \o suspended

(***************************************************************************)
(* Two calls of downloadVideo for the same video, which has not been       *)
(* downloaded yet, in progress at the same time.                           *)
(***************************************************************************)
InitSameVideo ==
  /\ InitDownloadVideo
  /\ ~Exists(fs, VideoPathOf(SomeVideoId))
  /\ InitCallState
  /\ progressCallback = "absent"
  /\ script = ScriptOff
  /\ suspended = <<Locals>>
  /\ batch = NoBatch

NextSameVideo ==
  \/ DownloadVideoEntry
  \/ DownloadResponse \/ DownloadData \/ DownloadFinish
  \/ DownloadWriterError \/ DownloadSourceError
  \/ Resume

SpecSameVideo == InitSameVideo /\ [][NextSameVideo]_vars

(***************************************************************************)
(* Two runs of extractText on the same service, for the links of two       *)
(* different videos, in progress at the same time.                         *)
(***************************************************************************)
InitTwoRuns ==
  /\ call = "extractText"
  /\ autoCleanTempFiles \in BOOLEAN
  /\ shareText = <<"_", "http://", "a", "_", "https://", "b", "_">>
  /\ maxRetries = 1
  /\ videoInfo = Null /\ videoPath = Null /\ audioPath = Null
  /\ fs \in PairFs
  /\ pc = "et_entry"
  /\ InitCallState
  /\ progressCallback = "absent"
  /\ script = ScriptOff
  /\ suspended = <<[Locals EXCEPT !.shareText = SecondShareText]>>
  /\ batch = NoBatch

NextTwoRuns ==
  \/ ExtractTextEntry \/ ParseShareUrlEntry \/ GetShare \/ GetPage
  \/ AfterParse \/ DownloadVideoEntry
  \/ DownloadResponse \/ DownloadData \/ DownloadFinish
  \/ DownloadWriterError \/ DownloadSourceError
  \/ AfterDownload \/ ExtractAudioEntry
  \/ FfmpegStart \/ FfmpegProgress \/ FfmpegEnd \/ FfmpegError
  \/ AfterAudio \/ TranscribeEntry \/ TranscribeResponse
  \/ AfterTranscription \/ CatchBlock
  \/ Resume

SpecTwoRuns == InitTwoRuns /\ [][NextTwoRuns]_vars

(***************************************************************************)
(* Two runs of extractText for the same link, and so for the same video,   *)
(* in progress at the same time, with auto-clean enabled and nothing on    *)
(* the disk before.                                                        *)
(***************************************************************************)
InitSameRuns ==
  /\ call = "extractText"
  /\ autoCleanTempFiles = TRUE
  /\ shareText = <<"_", "http://", "a", "_", "https://", "b", "_">>
  /\ maxRetries = 1
  /\ videoInfo = Null /\ videoPath = Null /\ audioPath = Null
  /\ fs = EmptyFs
  /\ pc = "et_entry"
  /\ InitCallState
  /\ progressCallback = "absent"
  /\ script = ScriptOff
  /\ suspended = <<Locals>>
  /\ batch = NoBatch

SpecSameRuns == InitSameRuns /\ [][NextTwoRuns]_vars

(***************************************************************************)
(* DouyinBatchProcessor.batchProcess: the links of the file are processed  *)
(* in a loop by processSingleVideo, which calls the service and turns its  *)
(* result or its error into an entry of the report.                        *)
(***************************************************************************)
\* The lines of the links file that readLinksFromFile keeps.
BatchLinks == {"l1", "l2"}

LinkLists == UNION {[1..n -> BatchLinks] : n \in 0..MaxLinks}

\* options.delay: 0 stands for an absent option as well.
DelayOptions == {0, 500}

\* options.delay || 2000
DelayWaited(option) == IF option = 0 THEN 2000 ELSE option

\* error.message of what the service throws for a link.
LinkErrors == {<<"parse failed">>, <<"download failed">>}

\* Faulty variant: the delay is waited after every link.
DelayFollowsAlways(i, n) == TRUE

\* i < links.length - 1
DelayFollows(i, n) == i < n - 1

\* readLinksFromFile throws when no link is left; otherwise the loop begins.
BatchProcessEntry ==
  /\ batch.pc = "bp_entry"
  /\ batch' = [batch EXCEPT !.pc = IF batch.links = <<>> THEN "bp_failed" ELSE "bp_loop"]
  /\ UNCHANGED <<call, autoCleanTempFiles, shareText, maxRetries, fs0, returned,
                 progressCallback, suspended, served, script, parseVars, videoInfo,
                 httpRequests, fileVars, events, tempFiles, videoPath, audioPath,
                 downloadVars, ffReports, extractedText, cleanups, thrown, result,
                 error, stageLog, pc>>

\* The loop calls processSingleVideo for links[i].
ProcessSingleVideoStart ==
  /\ batch.pc = "bp_loop"
  /\ batch.i < Len(batch.links)
  /\ batch' = [batch EXCEPT !.pc = "bp_processing",
                            !.trace = Append(@, <<"start", batch.i + 1>>)]
  /\ UNCHANGED <<call, autoCleanTempFiles, shareText, maxRetries, fs0, returned,
                 progressCallback, suspended, served, script, parseVars, videoInfo,
                 httpRequests, fileVars, events, tempFiles, videoPath, audioPath,
                 downloadVars, ffReports, extractedText, cleanups, thrown, result,
                 error, stageLog, pc>>

\* processSingleVideo returns its entry, with success or with the message of
\* the error it has caught; the entry is pushed to results, and to errors
\* when it is not a success.
ProcessSingleVideoEnd ==
  /\ batch.pc = "bp_processing"
  /\ \E outcome \in {Null} \cup LinkErrors :
       LET entry == [index |-> batch.i + 1,
                     shareLink |-> batch.links[batch.i + 1],
                     success |-> outcome = Null,
                     error |-> outcome]
           delayed == DelayFollows(batch.i, Len(batch.links))
       IN batch' = [batch EXCEPT
                      !.results = Append(@, entry),
                      !.errors = IF entry.success THEN @ ELSE Append(@, entry),
                      !.trace = Append(@, <<"end", batch.i + 1>>),
                      !.i = IF delayed THEN @ ELSE @ + 1,
                      !.pc = IF delayed THEN "bp_delay" ELSE "bp_loop"]
  /\ UNCHANGED <<call, autoCleanTempFiles, shareText, maxRetries, fs0, returned,
                 progressCallback, suspended, served, script, parseVars, videoInfo,
                 httpRequests, fileVars, events, tempFiles, videoPath, audioPath,
                 downloadVars, ffReports, extractedText, cleanups, thrown, result,
                 error, stageLog, pc>>

\* The delay between two links has been waited.
BatchDelay ==
  /\ batch.pc = "bp_delay"
  /\ batch' = [batch EXCEPT !.delays = Append(@, DelayWaited(batch.delay)),
                            !.trace = Append(@, <<"delay", batch.i + 1>>),
                            !.i = @ + 1,
                            !.pc = "bp_loop"]
  /\ UNCHANGED <<call, autoCleanTempFiles, shareText, maxRetries, fs0, returned,
                 progressCallback, suspended, served, script, parseVars, videoInfo,
                 httpRequests, fileVars, events, tempFiles, videoPath, audioPath,
                 downloadVars, ffReports, extractedText, cleanups, thrown, result,
                 error, stageLog, pc>>

\* After the loop: generateReport writes the report file, which may throw;
\* otherwise batchProcess returns this.results.
BatchReport ==
  /\ batch.pc = "bp_loop"
  /\ batch.i >= Len(batch.links)
  /\ \E reportWritten \in BOOLEAN :
       batch' = [batch EXCEPT !.pc = IF reportWritten THEN "bp_done" ELSE "bp_failed"]
  /\ UNCHANGED <<call, autoCleanTempFiles, shareText, maxRetries, fs0, returned,
                 progressCallback, suspended, served, script, parseVars, videoInfo,
                 httpRequests, fileVars, events, tempFiles, videoPath, audioPath,
                 downloadVars, ffReports, extractedText, cleanups, thrown, result,
                 error, stageLog, pc>>

InitBatch ==
  /\ call = "batchProcess"
  /\ autoCleanTempFiles = TRUE
  /\ shareText = <<>>
  /\ maxRetries = 3
  /\ videoInfo = Null /\ videoPath = Null /\ audioPath = Null
  /\ fs = EmptyFs
  /\ pc = "idle"
  /\ InitCallState
  /\ suspended = <<>>
  /\ progressCallback = "absent"
  /\ script = ScriptOff
  /\ \E links \in LinkLists, delay \in DelayOptions :
       batch = [NoBatch EXCEPT !.pc = "bp_entry", !.links = links, !.delay = delay]

NextBatch ==
  \/ BatchProcessEntry \/ ProcessSingleVideoStart \/ ProcessSingleVideoEnd
  \/ BatchDelay \/ BatchReport

SpecBatch == InitBatch /\ [][NextBatch]_vars

(***************************************************************************)
(* Properties of extractText.                                              *)
(***************************************************************************)
EventStages == [i \in 1..Len(events) |-> events[i].stage]

\* A sequence without its immediate repetitions.
RECURSIVE Compress(_)
Compress(seq) ==
  IF Len(seq) <= 1 THEN seq
  ELSE IF seq[1] = seq[2] THEN Compress(Tail(seq))
  ELSE <<seq[1]>> \o Compress(Tail(seq))

Ended(stage) == \E i \in 1..Len(stageLog) : stageLog[i] = <<"end", stage>>

FailedStages == SelectSeq(stageLog, LAMBDA entry : entry[1] = "fail")

PipelineStages == <<"parsing", "downloading", "extracting_audio", "speech_recognition">>

\* C1: in an extractText run the progress events are delivered in the order
\* of the stages (after an event of a stage no event of an earlier stage
\* follows), and a stage is begun only when the stage begun before it has
\* ended.
C1_StageOrder ==
  call = "extractText" =>
    /\ \A i, j \in 1..Len(events) :
         i < j => StageIdx(events[i].stage) <= StageIdx(events[j].stage)
    /\ \A k \in 1..Len(stageLog) :
         stageLog[k][1] = "begin" =>
           IF k = 1 THEN stageLog[k][2] = "parsing"
           ELSE /\ stageLog[k - 1][1] = "end"
                /\ StageIdx(stageLog[k - 1][2]) < StageIdx(stageLog[k][2])

C1_Witness ==
  /\ call = "extractText" /\ pc = "done"
  /\ Compress(EventStages) = Stages
  /\ Len(events) >= 12

\* C2 as claimed: every extractText run that returns has passed through all
\* six states in order, whatever the auto-clean setting is.
C2_AllSixStates ==
  (call = "extractText" /\ pc = "done") => Compress(EventStages) = Stages

\* C2, amended: every extractText run that returns has passed through
\* parsing, downloading, extracting_audio, speech_recognition and completed
\* in that order; cleaning lies between speech_recognition and completed
\* exactly when auto-clean is enabled.
C2_StatesByAutoClean ==
  (call = "extractText" /\ pc = "done") =>
    Compress(EventStages) =
      IF autoCleanTempFiles THEN Stages
      ELSE PipelineStages \o <<"completed">>

C2_Witness ==
  /\ call = "extractText" /\ pc = "done" /\ ~autoCleanTempFiles
  /\ Compress(EventStages) = PipelineStages \o <<"completed">>

\* The messages with which a stage fails.
IsErrorOf(stage, e) ==
  /\ e # Null
  /\ CASE stage = "parsing" ->
             e = NoLinkError \/ Head(e) = Head(ExhaustedError(0, Null))
        [] stage = "downloading" -> Head(e) = Head(DownloadError(Null))
        [] stage = "extracting_audio" ->
             Head(e) \in {Head(ExtractionError(Null)), Head(MissingVideoError(Null))}
        [] stage = "speech_recognition" ->
             Head(e) \in {Head(TranscriptionError(Null)), Head(MissingAudioError(Null))}
        [] OTHER -> FALSE

\* C3: when a stage of extractText fails, no later stage is begun and no
\* event of a later stage is delivered, and extractText fails with the
\* error of that stage, its message unchanged.
C3_FirstErrorRethrown ==
  (call = "extractText" /\ pc = "failed") =>
    /\ Len(FailedStages) = 1
    /\ stageLog[Len(stageLog)] = FailedStages[1]
    /\ \A i \in 1..Len(events) :
         StageIdx(events[i].stage) <= StageIdx(FailedStages[1][2])
    /\ error = thrown
    /\ IsErrorOf(FailedStages[1][2], error)

C3_Witness ==
  /\ call = "extractText" /\ pc = "failed"
  /\ FailedStages = << <<"fail", "extracting_audio">> >>
  /\ error = ExtractionError(TranscoderError)

UnlinkThrew(p) == \E i \in 1..Len(unlinkLog) : unlinkLog[i].path = p /\ ~unlinkLog[i].ok

Unlinked(p) == \E i \in 1..Len(unlinkLog) : unlinkLog[i].path = p /\ unlinkLog[i].ok

\* C5 as claimed: after an extractText run that succeeds, with auto-clean
\* enabled no tracked path exists, with auto-clean disabled all of them do.
C5_TrackedGoneOrKept ==
  (call = "extractText" /\ pc = "done") =>
    IF autoCleanTempFiles
    THEN \A p \in Range(tempFiles) : ~Exists(fs, p)
    ELSE \A p \in Range(tempFiles) : Exists(fs, p)

\* C5, amended: after an extractText run that succeeds the tracked paths
\* are the video and the audio path; with auto-clean enabled a tracked path
\* exists only if its unlink failed, with auto-clean disabled all tracked
\* paths exist and the run has deleted nothing.
C5_TrackedGoneUnlessUnlinkFailed ==
  (call = "extractText" /\ pc = "done") =>
    /\ tempFiles = <<videoPath, audioPath>>
    /\ IF autoCleanTempFiles
       THEN \A p \in Range(tempFiles) : Exists(fs, p) => UnlinkThrew(p)
       ELSE /\ \A p \in Range(tempFiles) : Exists(fs, p)
            /\ unlinkLog = <<>>

C5_Witness ==
  /\ call = "extractText" /\ pc = "done" /\ autoCleanTempFiles
  /\ Len(tempFiles) = 2
  /\ \A p \in Range(tempFiles) : ~Exists(fs, p) /\ Unlinked(p)

\* C6 as claimed: when extractText fails the cleanup policy has run; with
\* auto-clean enabled no tracked path and no file written by the run is
\* left, with auto-clean disabled the run has deleted no tracked file.
C6_FailureCleansUp ==
  (call = "extractText" /\ pc = "failed") =>
    IF autoCleanTempFiles
    THEN /\ cleanups = 1
         /\ \A p \in Range(tempFiles) \cup written : ~Exists(fs, p)
    ELSE /\ cleanups = 0
         /\ \A p \in Range(tempFiles) : ~Unlinked(p)

\* C6, amended: when extractText fails the cleanup policy has run once
\* before the error is thrown again; with auto-clean enabled a tracked path
\* or a file written by the run is left only if its unlink failed, with
\* auto-clean disabled the run has deleted no tracked file.
C6_FailureCleansUpUnlessUnlinkFailed ==
  (call = "extractText" /\ pc = "failed") =>
    IF autoCleanTempFiles
    THEN /\ cleanups = 1
         /\ \A p \in Range(tempFiles) \cup written : Exists(fs, p) => UnlinkThrew(p)
    ELSE /\ cleanups = 0
         /\ \A p \in Range(tempFiles) : ~Unlinked(p)

C6_Witness ==
  /\ call = "extractText" /\ pc = "failed" /\ autoCleanTempFiles
  /\ Len(tempFiles) = 2 /\ written = Range(tempFiles)
  /\ \A p \in Range(tempFiles) : ~Exists(fs, p) /\ Unlinked(p)

(***************************************************************************)
(* Properties of parseShareUrl.                                            *)
(***************************************************************************)
\* No scheme of the text is followed by a character a URL may contain.
NoUrlShaped(text) ==
  ~\E i \in 1..(Len(text) - 1) : IsScheme(text[i]) /\ IsUrlChar(text[i + 1])

\* C7: for a share text without a URL-shaped substring parseShareUrl fails
\* at once with the no-valid-share-link error: no HTTP request, no backoff
\* delay and no attempt, whatever maxRetries is.
C7_NoUrlFailsFast ==
  (/\ call \in {"parseShareUrl", "extractText"}
   /\ NoUrlShaped(shareText)
   /\ pc \notin {"parse_entry", "et_entry"}) =>
    /\ thrown = NoLinkError
    /\ httpRequests = 0 /\ delays = <<>> /\ attempt = 0 /\ attemptLog = <<>>
    /\ call = "parseShareUrl" => (pc = "failed" /\ error = NoLinkError)
    /\ call = "extractText" => pc \in {"et_catch", "failed"}

C7_Witness ==
  /\ call = "parseShareUrl" /\ pc = "failed" /\ error = NoLinkError
  /\ shareText = <<"a", "https://", "_", "a">> /\ maxRetries >= 3
  /\ httpRequests = 0

\* Every attempt so far met an interstitial or a page without the marker.
AllTransient ==
  \A i \in 1..Len(attemptLog) :
    attemptLog[i] \in {"interstitial", "interstitial_parsable", "marker_absent"}

IsExhausted(e) == e # Null /\ Head(e) = Head(ExhaustedError(0, Null))

ParseEnded == call = "parseShareUrl" /\ pc \in {"done", "failed"} /\ ~NoUrlShaped(shareText)

\* C8 as claimed: if every attempt meets a transient failure and
\* maxRetries = N >= 1, parseShareUrl makes exactly N attempts and then
\* fails with the retries-exhausted error.
C8_ExactlyNThenFails ==
  (ParseEnded /\ maxRetries >= 1 /\ AllTransient) =>
    /\ Len(attemptLog) = maxRetries
    /\ pc = "failed" /\ IsExhausted(error)

\* C8, amended: if every attempt meets a transient failure and
\* maxRetries = N >= 1, parseShareUrl makes exactly N attempts; it then
\* fails with the retries-exhausted error, unless the page of attempt N is
\* an interstitial that also carries a usable embedded JSON payload, in
\* which case that page is parsed and the descriptor returned.
C8_ExactlyNAttempts ==
  (ParseEnded /\ maxRetries >= 1 /\ AllTransient) =>
    /\ Len(attemptLog) = maxRetries
    /\ httpRequests = 2 * maxRetries
    /\ (pc = "done") <=> (attemptLog[maxRetries] = "interstitial_parsable")
    /\ pc = "failed" => IsExhausted(error)

C8_Witness ==
  /\ call = "parseShareUrl" /\ pc = "failed" /\ maxRetries = 3
  /\ attemptLog = <<"interstitial", "marker_absent", "marker_absent">>
  /\ error = ExhaustedError(3, ParseFailError)

\* C9 as claimed: while every attempt meets an interstitial or a page
\* without the marker, the delay waited after an attempt is at least the
\* delay waited after the attempt before.
C9_DelaysNonDecreasing ==
  AllTransient =>
    \A i \in 1..(Len(delays) - 1) : delays[i].ms <= delays[i + 1].ms

\* C9, amended: while every attempt meets an interstitial or a page
\* without the marker, the delays of one failure class are non-decreasing
\* across attempts; a later delay is shorter than an earlier one only when
\* an interstitial follows a page without the marker met at attempt 3 or
\* later (5000 ms after 8000 ms or 10000 ms).
C9_DelaysNonDecreasingPerClass ==
  AllTransient =>
    \A i, j \in 1..Len(delays) :
      i < j =>
        /\ delays[i].class = delays[j].class => delays[i].ms <= delays[j].ms
        /\ delays[i].ms > delays[j].ms =>
             /\ delays[i].class = "parse_failed" /\ delays[j].class = "interstitial"
             /\ delays[i].attempt >= 3 /\ delays[j].ms = 5000

C9_Witness ==
  /\ AllTransient /\ Len(delays) = 4
  /\ [i \in 1..4 |-> delays[i].ms] = <<1000, 4000, 8000, 5000>>

(***************************************************************************)
(* Properties of downloadVideo.                                            *)
(***************************************************************************)
DownloadEvents == SelectSeq(events, LAMBDA e : e.stage = "downloading")

\* C10: when the destination file exists, downloadVideo returns its path,
\* delivers the single event (downloading, 100), sends no HTTP request and
\* writes nothing.
C10_ExistingFileShortcut ==
  /\ (/\ call = "downloadVideo"
      /\ Exists(fs0, VideoPathOf(videoInfo.videoId))
      /\ pc # "dl_entry") =>
       /\ pc = "done" /\ result = VideoPathOf(videoInfo.videoId)
       /\ events = <<Event("downloading", 100)>>
       /\ httpRequests = 0
       /\ fs = fs0
  /\ (call = "extractText" /\ videoPath # Null /\ Exists(fs0, videoPath)) =>
       /\ DownloadEvents = <<Event("downloading", 100)>>
       /\ httpRequests <= 2 * Len(attemptLog) + 1
       /\ videoPath \notin written

C10_Witness ==
  /\ call = "downloadVideo" /\ pc = "done"
  /\ Exists(fs0, result) /\ fs0[result] = "partial"
  /\ httpRequests = 0 /\ Len(events) = 1

\* C11: when downloadVideo is called twice in sequence for the same video,
\* the second call returns the path the first call returned, which is the
\* download directory followed by the identifier and ".mp4" whatever title
\* and play address the descriptor carries; the second call sends no
\* request, writes nothing and leaves every file as the first call left it.
C11_SecondCallSamePath ==
  (call = "downloadVideo" /\ returned # <<>>) =>
    /\ returned[1].result = downloadDir \o videoInfo.videoId \o <<".mp4">>
    /\ pc \in {"dl_entry", "done"}
    /\ pc = "done" => result = returned[1].result
    /\ fs = returned[1].fs
    /\ httpRequests = 0 /\ written = {}

C11_Witness ==
  /\ call = "downloadVideo" /\ returned # <<>> /\ pc = "done"
  /\ returned[1].written = {result}
  /\ videoInfo.title = <<"douyin_", "v1">>
  /\ fs[result] = "full"

\* C12 as claimed: whenever downloadVideo fails, no file exists at the
\* destination path afterwards, and a single request has been sent.
C12_FailureLeavesNoFile ==
  (call = "downloadVideo" /\ pc = "failed") =>
    /\ ~Exists(fs, videoPath)
    /\ httpRequests = 1

\* C12, amended: whenever downloadVideo fails, it fails with the download
\* error, the deletion of the destination file has been attempted before the
\* error is propagated, so that a file exists at the destination path
\* afterwards only if its unlink failed, and a single request has been sent.
C12_FailureDeletesUnlessUnlinkFailed ==
  /\ (call = "downloadVideo" /\ pc = "failed") =>
       /\ IsErrorOf("downloading", error)
       /\ Exists(fs, videoPath) => UnlinkThrew(videoPath)
       /\ videoPath \in written => (Unlinked(videoPath) \/ UnlinkThrew(videoPath))
       /\ httpRequests = 1
  /\ (call = "extractText" /\ FailedStages = << <<"fail", "downloading">> >>) =>
       /\ IsErrorOf("downloading", thrown)
       /\ Exists(fs, videoPath) => UnlinkThrew(videoPath)
       /\ Len(DownloadEvents) >= 1 /\ DownloadEvents[1].progress = 0

C12_Witness ==
  /\ call = "downloadVideo" /\ pc = "failed"
  /\ error = DownloadError(WriteError)
  /\ videoPath \in written /\ ~Exists(fs, videoPath) /\ Unlinked(videoPath)

\* The percents of the events of the data handler, in delivery order: the
\* events of downloadVideo after its first one, one per chunk.
ChunkPercents ==
  [i \in 1..Len(served.chunks) |-> DownloadEvents[i + 1].progress]

EqualChunks == \A i \in 1..Len(served.chunks) : served.chunks[i] = served.chunks[1]

C14_ErrorLeavesNoAudio ==
  (call = "extractAudio" /\ pc = "failed" /\ error = ExtractionError(TranscoderError)) =>
    ~Exists(fs, audioPath)

\* C14, amended: when the transcoder reports an error, extractAudio fails
\* with the extraction error after it has attempted to delete the file at
\* the audio path: a file is left there only if its unlink failed.
C14_ErrorDeletesUnlessUnlinkFailed ==
  /\ (call \in {"extractAudio", "extractText"} /\ thrown = ExtractionError(TranscoderError)) =>
       /\ Exists(fs, audioPath) => UnlinkThrew(audioPath)
       /\ audioPath \in written => (Unlinked(audioPath) \/ UnlinkThrew(audioPath))
       /\ call = "extractAudio" => (pc = "failed" /\ error = thrown /\ result = Null)
  /\ (call = "extractAudio" /\ pc = "failed") =>
       error \in {ExtractionError(TranscoderError), MissingVideoError(videoPath)}

C14_Witness ==
  /\ call = "extractAudio" /\ pc = "failed"
  /\ error = ExtractionError(TranscoderError)
  /\ ffReports >= 1 /\ audioPath \in written
  /\ ~Exists(fs, audioPath) /\ Unlinked(audioPath)

\* C15: once the speech API has answered, extractTextFromAudio returns the
\* text field of the response if it is present and not empty and the
\* placeholder if it is absent or empty; it does not fail.
C15_TextOrPlaceholder ==
  (call \in {"extractTextFromAudio", "extractText"} /\ served.text # <<>>) =>
    LET text == served.text[1]
        expected == IF text = Null \/ text = <<"">> THEN Placeholder ELSE text
    IN /\ extractedText = expected
       /\ thrown = Null /\ error = Null
       /\ call = "extractTextFromAudio" => (pc = "done" /\ result = expected)
       /\ call = "extractText" => pc \in {"et_text", "done"}
       /\ pc = "done" /\ call = "extractText" => result[2] = expected

C15_Witness ==
  /\ call = "extractTextFromAudio" /\ pc = "done"
  /\ served.text = << <<"">> >> /\ result = Placeholder

\* The nine characters sanitizeFilename replaces.
NineChars == {"\\", "/", ":", "*", "?", "\"", "<", ">", "|"}

\* C16: sanitizeFilename returns a name of the length of its argument in
\* which each of the nine characters is replaced by "_" and every other
\* character is kept; the name contains none of the nine, and sanitizing
\* it once more returns it unchanged.
C16_SanitizeFilename ==
  (call = "sanitizeFilename" /\ pc = "done") =>
    LET name == IF returned = <<>> THEN shareText ELSE returned[1].result
    IN /\ Len(result) = Len(name)
       /\ \A i \in 1..Len(name) :
            /\ name[i] \in NineChars => result[i] = "_"
            /\ name[i] \notin NineChars => result[i] = name[i]
       /\ \A i \in 1..Len(result) : result[i] \notin NineChars
       /\ returned # <<>> => result = returned[1].result

C16_Witness ==
  /\ call = "sanitizeFilename" /\ pc = "done" /\ returned # <<>>
  /\ shareText = <<"\\", "|">> /\ result = <<"_", "_">>

\* The first URL of a text: it starts at the first scheme that a character
\* of a URL follows and ends before the first character that is not one.
IsFirstUrlOf(url, text) ==
  \E i \in 1..Len(text) : \E j \in (i + 1)..Len(text) :
    /\ url = SubSeq(text, i, j)
    /\ IsScheme(text[i])
    /\ \A m \in (i + 1)..j : IsUrlChar(text[m])
    /\ j < Len(text) => ~IsUrlChar(text[j + 1])
    /\ \A m \in 1..(i - 1) : ~(IsScheme(text[m]) /\ IsUrlChar(text[m + 1]))

\* The last path segment of a URL without blanks, its query string removed.
IsLastSegmentOf(id, url) ==
  LET marks == {i \in 1..Len(url) : url[i] = "?"}
      q == IF marks = {} THEN Len(url) + 1
           ELSE CHOOSE i \in marks : \A m \in marks : i <= m
      slashes == {i \in 1..(q - 1) : url[i] = "/"}
      last == IF slashes = {} THEN 0
              ELSE CHOOSE i \in slashes : \A m \in slashes : m <= i
  IN id = SubSeq(url, last + 1, q - 1)

IsBlank(str) == \A i \in 1..Len(str) : str[i] = " "

\* A string without the blanks at its ends.
IsTrimmed(out, str) ==
  \E i \in 1..Len(str) : \E j \in i..Len(str) :
    /\ out = SubSeq(str, i, j)
    /\ str[i] # " " /\ str[j] # " "
    /\ IsBlank(SubSeq(str, 1, i - 1)) /\ IsBlank(SubSeq(str, j + 1, Len(str)))

\* A play address with its first watermark segment rewritten.
IsUnwatermarked(out, url) ==
  /\ Len(out) = Len(url)
  /\ \A i \in 1..Len(url) :
       out[i] = IF url[i] = "playwm" /\ \A m \in 1..(i - 1) : url[m] # "playwm"
                THEN "play" ELSE url[i]

\* C17: when parseShareUrl returns, it has used the first URL of the share
\* text, and the descriptor carries as videoId the last path segment of the
\* final URL without its query string, as description the description of
\* the first item without the blanks around it, or "douyin_" followed by
\* the videoId when that is absent or blank, as title the description with
\* each of the nine characters replaced by "_", and as downloadUrl the play
\* address of the first item with "playwm" rewritten to "play".
C17_ResolvedDescriptor ==
  (call = "parseShareUrl" /\ pc = "done") =>
    LET data == served.item_list[1]
    IN /\ IsFirstUrlOf(shareUrl, shareText)
       /\ result = videoInfo
       /\ IsLastSegmentOf(result.videoId, served.responseUrl)
       /\ IF IsBlank(data.desc)
          THEN result.desc = <<"douyin_">> \o result.videoId
          ELSE IsTrimmed(result.desc, data.desc)
       /\ Len(result.title) = Len(result.desc)
       /\ \A i \in 1..Len(result.desc) :
            result.title[i] = IF result.desc[i] \in NineChars THEN "_" ELSE result.desc[i]
       /\ IsUnwatermarked(result.downloadUrl, data.url)

C17_Witness ==
  /\ call = "parseShareUrl" /\ pc = "done"
  /\ shareText = <<"_", "http://", "a", "_", "https://", "b", "_">>
  /\ shareUrl = <<"http://", "a">>
  /\ \E i \in 1..Len(served.responseUrl) : served.responseUrl[i] = "?"
  /\ served.item_list[1].desc = <<" ", "a", "?", " ", "b", " ">>
  /\ result = [videoId |-> <<"v1">>, title |-> <<"a", "_", " ", "b">>,
               downloadUrl |-> <<"https:", "/", "/", "cdn", "/", "play", "/", "x">>,
               desc |-> <<"a", "?", " ", "b">>]

\* C18: every progress event carries a percent that is an integer between
\* 0 and 100, whatever content-length the server declares and whatever
\* percent the transcoder reports.
C18_PercentInRange ==
  \A i \in 1..Len(events) : events[i].progress \in 0..100

\* C19: the percents of the events of one stage are non-decreasing in
\* delivery order.
C19_MonotoneWithinStage ==
  \A i \in 1..(Len(events) - 1) :
    events[i].stage = events[i + 1].stage =>
      events[i].progress <= events[i + 1].progress

(***************************************************************************)
(* C20: the progress callback is a side-effect-only hook                   *)
(***************************************************************************)
\* The second run, made without a callback, has settled.
BothSettled == returned # <<>> /\ pc \in {"done", "failed"}

\* The run without a callback took the same stage steps, settled the same
\* way with the same result or error and left the same files as the run
\* with a callback did.
SameOutcome ==
  /\ Outcome = returned[1]
  /\ \A c \in Collaborators : script.log[c] = <<>>

\* The run without a callback follows the run with it step by step: its
\* stage steps are a prefix of the earlier ones and it can always go on.
Follows ==
  /\ Len(stageLog) <= Len(returned[1].stageLog)
  /\ stageLog = SubSeq(returned[1].stageLog, 1, Len(stageLog))
  /\ pc \notin {"done", "failed"} => ENABLED NextPair

\* C20: for the same inputs and the same behaviour of the external
\* collaborators, extractText with a progress callback attached and
\* extractText without one take the same sequence of stage steps, return
\* the same result or fail with the same error, and leave the same files on
\* disk, whatever the callback is.
C20_CallbackIsSideEffectOnly ==
  /\ returned # <<>> => Follows
  /\ BothSettled => SameOutcome

\* What holds of the code: the same, for a callback that returns normally
\* from every call.
ReturningCallbackIsSideEffectOnly ==
  returned # <<>> /\ script.ofCallback = "returns" =>
    /\ Follows
    /\ BothSettled => SameOutcome

\* Both runs have gone through the whole pipeline with a returning callback.
ReturningCallbackWitness ==
  /\ BothSettled
  /\ script.ofCallback = "returns"
  /\ pc = "done"
  /\ Len(returned[1].stageLog) >= 8

(***************************************************************************)
(* C21: the cleanup operation never throws and accounts for every path     *)
(***************************************************************************)
\* The entries of seq at the positions in S, in order.
RECURSIVE SubSeqAt(_, _, _)
SubSeqAt(seq, S, i) ==
  IF i > Len(seq) THEN <<>>
  ELSE (IF i \in S THEN <<seq[i]>> ELSE <<>>) \o SubSeqAt(seq, S, i + 1)

ErrorPaths(errors) == [i \in 1..Len(errors) |-> errors[i][1]]

CleanupReturned == call = "cleanupTempFiles" /\ pc = "done"

\* C21: cleanupTempFiles never throws; it attempts every path even after an
\* earlier one failed and returns (deletedFiles, errors) in which each entry
\* of the input is accounted for exactly once, as a deleted path or as one
\* error message; a path that does not exist yields an error entry, and
\* every path in deletedFiles no longer exists.
C21_CleanupAccountsForEveryPath ==
  /\ call = "cleanupTempFiles" => pc # "failed" /\ error = Null
  /\ CleanupReturned =>
       LET deletedFiles == result[1]
           errors == result[2]
           n == Len(tempFiles)
       IN /\ \E S \in SUBSET (1..n) :
               /\ deletedFiles = SubSeqAt(tempFiles, S, 1)
               /\ ErrorPaths(errors) = SubSeqAt(tempFiles, (1..n) \ S, 1)
          /\ \A i \in 1..n :
               \/ tempFiles[i] \in Range(deletedFiles)
               \/ UnlinkThrew(tempFiles[i])
               \/ <<tempFiles[i], "File does not exist">> \in Range(errors)
          /\ \A i \in 1..n :
               ~Exists(fs0, tempFiles[i]) =>
                 /\ <<tempFiles[i], "File does not exist">> \in Range(errors)
                 /\ tempFiles[i] \notin Range(deletedFiles)
          /\ \A i \in 1..Len(deletedFiles) : ~Exists(fs, deletedFiles[i])
          /\ DOMAIN fs0 \ DOMAIN fs = Range(deletedFiles)

\* A list of two paths whose first deletion failed and whose second one
\* was carried out.
C21_Witness ==
  /\ CleanupReturned
  /\ Len(tempFiles) = 2
  /\ Len(result[2]) = 1 /\ result[2][1][1] = tempFiles[1]
  /\ result[1] = <<tempFiles[2]>>

(***************************************************************************)
(* C24: parseShareUrl stops at the first success and within its bounds     *)
(***************************************************************************)
Succeeded(kind) == kind \in {"success", "interstitial_parsable"}

\* The attempts that ended with the descriptor.
SuccessfulAttempts ==
  {i \in 1..Len(attemptLog) :
     /\ Succeeded(attemptLog[i])
     /\ attemptLog[i] = "interstitial_parsable" => i >= maxRetries}

ParseReturned ==
  \/ call = "parseShareUrl" /\ pc = "done"
  \/ call = "extractText" /\ served.item_list # <<>>

\* C24: parseShareUrl returns the descriptor on the first attempt that
\* fully succeeds and makes no further attempt or HTTP request after it; the
\* number of attempts is at most maxRetries and the number of HTTP requests
\* at most 2 * maxRetries; for maxRetries <= 0 it makes no request at all
\* and fails with the retries-exhausted error.
C24_StopsAtFirstSuccess ==
  /\ Len(attemptLog) <= (IF maxRetries > 0 THEN maxRetries ELSE 0)
  /\ attempt <= (IF maxRetries > 0 THEN maxRetries + 1 ELSE 1)
  /\ call = "parseShareUrl" =>
       /\ httpRequests <= (IF maxRetries > 0 THEN 2 * maxRetries ELSE 0)
       /\ httpRequests <= 2 * Len(attemptLog) + (IF pc = "get_page" THEN 1 ELSE 0)
  /\ ParseReturned <=> SuccessfulAttempts # {}
  /\ SuccessfulAttempts \subseteq {Len(attemptLog)}
  /\ (call = "parseShareUrl" /\ pc = "done") =>
       /\ result = videoInfo /\ served.item_list # <<>>
       /\ attempt = Len(attemptLog)
       /\ httpRequests \in (Len(attemptLog) + 1)..(2 * Len(attemptLog))
  /\ (call = "parseShareUrl" /\ maxRetries <= 0 /\ ~NoUrlShaped(shareText)
        /\ pc # "parse_entry") =>
       /\ pc = "failed" /\ error = ExhaustedError(maxRetries, Null)
       /\ httpRequests = 0 /\ attemptLog = <<>>

\* A run that succeeded at its second attempt of at least three.
C24_Witness ==
  /\ call = "parseShareUrl" /\ pc = "done" /\ maxRetries >= 3
  /\ Len(attemptLog) = 2 /\ attemptLog[2] = "success"
  /\ httpRequests = 3

\* A run with no attempt allowed.
C24_WitnessNoAttempt ==
  /\ call = "parseShareUrl" /\ pc = "failed" /\ maxRetries = -1
  /\ error = ExhaustedError(-1, Null)

(***************************************************************************)
(* C25: the backoff delay of each failure class                            *)
(***************************************************************************)
\* Base and ceiling of the delay, in milliseconds, by what the attempt met.
BackoffBase(kind) ==
  CASE kind \in {"interstitial", "interstitial_parsable"} -> 1000
    [] kind = "marker_absent" -> 2000
    [] OTHER -> 3000

BackoffCap(kind) ==
  CASE kind \in {"interstitial", "interstitial_parsable"} -> 5000
    [] kind = "marker_absent" -> 10000
    [] OTHER -> 15000

RECURSIVE TwoToThe(_)
TwoToThe(n) == IF n = 0 THEN 1 ELSE 2 * TwoToThe(n - 1)

\* The attempts that have failed so far.
FailedAttempts == {a \in 1..Len(attemptLog) : a \notin SuccessfulAttempts}

\* C25: the delay waited after failed attempt a (1 <= a < maxRetries) is
\* min(base * 2^(a-1), cap) ms with (base, cap) = (1000, 5000) for an
\* interstitial, (2000, 10000) for an absent JSON marker and (3000, 15000)
\* for a request-level or other thrown exception; exactly one delay is
\* waited per failed attempt and no delay exceeds the cap of its class.
C25_BackoffDelays ==
  LET waiting == {a \in FailedAttempts : a < maxRetries}
  IN /\ Len(delays) = Cardinality(waiting)
     /\ \A i \in 1..Len(delays) :
          LET a == delays[i].attempt
              kind == attemptLog[a]
              full == BackoffBase(kind) * TwoToThe(a - 1)
          IN /\ a = i /\ a \in waiting
             /\ delays[i].ms = (IF full < BackoffCap(kind) THEN full ELSE BackoffCap(kind))
             /\ delays[i].ms <= BackoffCap(kind)

\* Four failed attempts of different classes, the last delay at its ceiling.
C25_Witness ==
  /\ call = "parseShareUrl" /\ maxRetries = 5
  /\ attemptLog = <<"exception", "marker_absent", "interstitial", "no_keys">>
  /\ [i \in 1..Len(delays) |-> delays[i].ms] = <<3000, 4000, 4000, 15000>>

(***************************************************************************)
(* C26: an interstitial with attempts left is never parsed                 *)
(***************************************************************************)
ShowsInterstitial(kind) == kind \in {"interstitial", "interstitial_parsable"}

\* C26: if the fetched page shows an interstitial marker and attempts
\* remain, parseShareUrl backs off and starts the next attempt without
\* parsing that page, even when the page also contains the embedded JSON
\* marker.
C26_InterstitialBacksOff ==
  \A a \in 1..Len(attemptLog) :
    (ShowsInterstitial(attemptLog[a]) /\ a < maxRetries) =>
      /\ Len(delays) >= a
      /\ delays[a].class = "interstitial" /\ delays[a].attempt = a
      /\ attempt >= a + 1
      /\ Len(attemptLog) = a =>
           /\ attempt = a + 1
           /\ pc \in {"get_share", "get_page"}
           /\ served.item_list = <<>>
           /\ a > 1 /\ attemptLog[a - 1] = "exception" => lastError = RequestError

\* The first page showed an interstitial and a usable JSON payload, and the
\* second attempt is under way.
C26_Witness ==
  /\ call = "parseShareUrl" /\ maxRetries >= 2
  /\ attemptLog = <<"interstitial_parsable">>
  /\ attempt = 2 /\ pc = "get_share"
  /\ delays = <<[attempt |-> 1, class |-> "interstitial", ms |-> 1000]>>

(***************************************************************************)
(* C27: JSON without a known key; JSON with both keys                      *)
(***************************************************************************)
AllWithoutKeys == \A i \in 1..Len(attemptLog) : attemptLog[i] = "no_keys"

\* C27: if the embedded JSON is found but contains neither of the two known
\* top-level keys, the attempt fails with a resolution error that is retried
\* with backoff like any other resolution failure; if it happens on all
\* N = maxRetries attempts, parseShareUrl fails after exactly N attempts.
\* When both keys are present, the video-page key is used.
C27_UnknownKeysRetried ==
  /\ \A a \in 1..Len(attemptLog) :
       attemptLog[a] = "no_keys" =>
         /\ a < maxRetries =>
              /\ Len(delays) >= a /\ delays[a].attempt = a
              /\ delays[a].class = "exception"
              /\ attempt >= a + 1
         /\ Len(attemptLog) = a =>
              /\ lastError = NoKeyError
              /\ served.item_list = <<>>
              /\ a < maxRetries => pc \in {"get_share", "get_page"}
              /\ a >= maxRetries => thrown = ExhaustedError(maxRetries, NoKeyError)
  /\ (ParseEnded /\ maxRetries >= 1 /\ AllWithoutKeys) =>
       /\ Len(attemptLog) = maxRetries
       /\ httpRequests = 2 * maxRetries
       /\ pc = "failed" /\ error = ExhaustedError(maxRetries, NoKeyError)
  /\ served.loaderData.video # <<>> =>
       /\ served.item_list = served.loaderData.video
       /\ videoInfo = Descriptor(videoId, served.loaderData.video[1])
  /\ (served.loaderData.video = <<>> /\ served.loaderData.note # <<>>) =>
       served.item_list = served.loaderData.note

\* A first page without a known key, then a page whose two keys hold
\* different items.
C27_Witness ==
  /\ call = "parseShareUrl" /\ pc = "done"
  /\ attemptLog = <<"no_keys", "success">>
  /\ served.loaderData.video # <<>> /\ served.loaderData.note # <<>>
  /\ served.loaderData.video # served.loaderData.note
  /\ result.desc = <<"my", "/", "video">>

\* Every attempt allowed met JSON without a known key.
C27_WitnessExhausted ==
  /\ call = "parseShareUrl" /\ pc = "failed" /\ maxRetries = 3
  /\ attemptLog = <<"no_keys", "no_keys", "no_keys">>

(***************************************************************************)
(* C29: a missing input file is detected first                             *)
(***************************************************************************)
InputMissing ==
  \/ call = "extractAudio" /\ ~Exists(fs0, videoPath)
  \/ call = "extractTextFromAudio" /\ ~Exists(fs0, audioPath)

\* C29: extractAudio and extractTextFromAudio check their input file first:
\* when it is missing the operation fails before the external collaborator
\* is contacted (no transcoding process is started, no HTTP request is
\* sent), delivers no progress event and creates or deletes no file.
C29_MissingInputFailsFirst ==
  /\ (InputMissing /\ pc \notin {"ea_entry", "tr_entry"}) =>
       /\ pc = "failed"
       /\ call = "extractAudio" => error = MissingVideoError(videoPath)
       /\ call = "extractTextFromAudio" => error = MissingAudioError(audioPath)
       /\ httpRequests = 0 /\ ffReports = 0
       /\ events = <<>>
       /\ fs = fs0 /\ written = {} /\ unlinkLog = <<>>
  /\ (call = "extractText" /\ thrown = MissingAudioError(audioPath)) =>
       /\ \A i \in 1..Len(events) : events[i].stage # "speech_recognition"
       /\ ~Exists(fs, audioPath)

\* extractAudio was called on a video that is not there, next to an audio
\* file of an earlier run.
C29_Witness ==
  /\ call = "extractAudio" /\ pc = "failed"
  /\ ~Exists(fs0, videoPath)
  /\ Exists(fs, AudioPathOf(videoPath))

\* extractTextFromAudio was called on an audio file that is not there.
C29_WitnessTranscription ==
  /\ call = "extractTextFromAudio" /\ pc = "failed"
  /\ ~Exists(fs0, audioPath)

(***************************************************************************)
(* C30: the two events and the single request of extractTextFromAudio      *)
(***************************************************************************)
SpeechEvents == SelectSeq(events, LAMBDA e : e.stage = "speech_recognition")

SpeechPercents == [i \in 1..Len(SpeechEvents) |-> SpeechEvents[i].progress]

\* C30: extractTextFromAudio delivers exactly two progress events on
\* success, percent 0 before the API call and percent 100 after the
\* response, in that order; when the API call fails it delivers only the
\* percent-0 event, never the percent-100 event, fails with a transcription
\* error and performs no retry (exactly one HTTP request per call).
C30_TwoEventsOneRequest ==
  /\ call = "extractTextFromAudio" =>
       /\ events = SpeechEvents
       /\ pc = "tr_entry" => SpeechPercents = <<>> /\ httpRequests = 0
       /\ pc = "tr_request" => SpeechPercents = <<0>> /\ httpRequests = 1
       /\ pc = "done" =>
            /\ SpeechPercents = <<0, 100>> /\ httpRequests = 1
            /\ served.text # <<>>
       /\ (pc = "failed" /\ Exists(fs0, audioPath)) =>
            /\ SpeechPercents = <<0>> /\ httpRequests = 1
            /\ served.text = <<>>
            /\ error = <<"speech recognition failed: ">> \o RequestError
  /\ call = "extractText" =>
       /\ SpeechPercents \in {<<>>, <<0>>, <<0, 100>>}
       /\ SpeechPercents = <<0, 100>> <=> served.text # <<>>
       /\ pc = "tr_request" => SpeechPercents = <<0>>

\* A call whose API request failed.
C30_Witness ==
  /\ call = "extractTextFromAudio" /\ pc = "failed"
  /\ Exists(fs0, audioPath)
  /\ httpRequests = 1 /\ Len(events) = 1

\* A call that returned a text.
C30_WitnessSuccess ==
  /\ call = "extractTextFromAudio" /\ pc = "done"
  /\ Len(events) = 2 /\ result = <<"hello world">>

(***************************************************************************)
(* C28: every downloadVideo call terminates                                *)
(***************************************************************************)
\* C28: every downloadVideo call eventually terminates, returning the path
\* or failing with a download error, for every behaviour of the response
\* stream: normal end, write error on the destination file, and an error
\* or abort of the source stream in the middle of the transfer.
C28_DownloadTerminates ==
  <>(\/ pc = "done" /\ result = VideoPathOf(videoInfo.videoId)
     \/ pc = "failed" /\ Head(error) = Head(DownloadError(Null)))

\* What holds of the code: a call whose source stream does not fail
\* terminates.
DownloadSettlesOrStalls ==
  <>(pc \in {"done", "failed", "dl_stalled"})

\* A call of the two has returned.
HasReturned(c) == c.pc = "done"

\* C22: when two downloadVideo calls for the same video, which is not yet
\* downloaded, are interleaved in any order, each call that returns gives
\* the same destination path, and whenever a call has returned the file at
\* that path holds the complete content of the video.
C22_ConcurrentDownloadsIdempotent ==
  \A i \in 1..Len(Calls) :
    HasReturned(Calls[i]) =>
      /\ Calls[i].result = VideoPathOf(SomeVideoId)
      /\ Exists(fs, Calls[i].result)
      /\ fs[Calls[i].result] = "full"

\* The part of it that holds: the calls that return give the same path.
ConcurrentDownloadsSamePath ==
  \A i \in 1..Len(Calls) :
    HasReturned(Calls[i]) => Calls[i].result = VideoPathOf(SomeVideoId)

\* The files a run works on: the ones it has written or tracks, and the
\* ones it looks for and reads as its video and its audio.
FilesOf(c) ==
  c.written \cup Range(c.tempFiles) \cup ({c.videoPath, c.audioPath} \ {Null})

\* The paths a run has passed to fs.unlinkSync.
UnlinkedBy(c) == {c.unlinkLog[i].path : i \in 1..Len(c.unlinkLog)}

\* The two runs have worked on different files.
SeparateFiles ==
  LET mine == FilesOf(Locals) \cup UnlinkedBy(Locals)
      theirs == FilesOf(suspended[1]) \cup UnlinkedBy(suspended[1])
  IN /\ mine \cap theirs = {}
     /\ Range(tempFiles) \subseteq {videoPath, audioPath}
     /\ videoInfo # Null /\ suspended[1].videoInfo # Null =>
          videoInfo.videoId # suspended[1].videoInfo.videoId

\* The content of the files of a run on a disk.
FilesOn(f, c) == [p \in FilesOf(c) \cap DOMAIN f |-> f[p]]

\* A step is either a step of the running call, which leaves the local
\* state and the files of the waiting run as they are, or the turn of the
\* event loop to the waiting run, which finds its local state as it left
\* it and changes nothing on the disk.
NoInterference ==
  \/ /\ suspended' = suspended
     /\ FilesOn(fs', suspended[1]) = FilesOn(fs, suspended[1])
  \/ /\ suspended' = <<Locals>>
     /\ Locals' = suspended[1]
     /\ fs' = fs

\* C23: two extractText runs in progress at the same time on one service,
\* for different video identifiers, share no mutable state: each has its
\* own list of tracked files and its own video and audio paths, no run
\* reads, writes or deletes a file of the other, and no step of a run
\* changes what the other run sees, so that each run proceeds as if alone.
C23_RunsShareNoState ==
  /\ [](call = "extractText" /\ Interleaved => SeparateFiles)
  /\ [][call = "extractText" /\ Interleaved => NoInterference]_vars

\* Both runs have gone through the whole pipeline and cleaned their files.
C23_Witness ==
  /\ call = "extractText" /\ Interleaved
  /\ pc = "done" /\ suspended[1].pc = "done"
  /\ Cardinality(written) = 2 /\ Cardinality(suspended[1].written) = 2
  /\ Len(unlinkLog) = 2 /\ Len(suspended[1].unlinkLog) = 2

\* Both runs are in the middle of their stages at the same time.
C23_WitnessInFlight ==
  /\ call = "extractText" /\ Interleaved
  /\ pc = "ea_running" /\ suspended[1].pc = "dl_stream"
  /\ fs[videoPath] = "full" /\ fs[suspended[1].videoPath] = "partial"

\* The stage has ended or failed in the run.
StageEnded(stage) == \E k \in 1..Len(stageLog) : stageLog[k] = <<"end", stage>>

StageFailed == \E k \in 1..Len(stageLog) : stageLog[k][1] = "fail"

\* The tracked files have been deleted at most once, with auto-clean only,
\* and by the last step of the run, which on the success path comes after
\* the end of the transcription.
CleanupOnceAtEnd ==
  /\ cleanups <= 1
  /\ ~autoCleanTempFiles => cleanups = 0
  /\ cleanups >= 1 =>
       /\ pc \in {"done", "failed"}
       /\ pc = "done" => StageEnded("speech_recognition")

\* C31: in any single extractText run the tracked files are deleted at most
\* once and only at the end of the run (after the transcription on the
\* success path, after the failure of a stage on the failure path), never
\* while a stage is running and never when auto-clean is disabled.
C31_CleanupOnceAtEnd == call = "extractText" => CleanupOnceAtEnd

\* What holds: so it is in the runs whose callback returns or is absent, and
\* in these runs the deletion on the failure path follows the failure of a
\* stage.
CleanupOnceUnlessCallbackThrows ==
  call = "extractText" /\ progressCallback \in {"absent", "returns"} =>
    /\ CleanupOnceAtEnd
    /\ cleanups = 1 /\ pc = "failed" => StageFailed

\* The paths extractText has passed to fs.unlinkSync in its cleanup.
CleanedPaths ==
  {unlinkLog[i].path : i \in {k \in 1..Len(unlinkLog) : unlinkLog[k].by = "extractText"}}

\* C32: the tracked files of an extractText run are files the run has
\* created: a video that was on the disk before the run, so that the
\* download was skipped, is not tracked and is not deleted by the cleanup
\* of the run.
C32_TracksOnlyCreatedFiles ==
  call = "extractText" =>
    /\ Range(tempFiles) \subseteq written
    /\ CleanedPaths \subseteq written
    /\ \A p \in DOMAIN fs0 : p \notin written => Exists(fs, p)

\* The part of it that holds: the audio a run tracks is one it has written.
TrackedAudioIsCreated ==
  call = "extractText" /\ Len(tempFiles) = 2 => tempFiles[2] \in written

\* The cleanup of the run could not delete some tracked file.
DeletionFailed ==
  \E i \in 1..Len(unlinkLog) : unlinkLog[i].by = "extractText" /\ ~unlinkLog[i].ok

\* C33: a file that the cleanup cannot delete never changes the outcome of
\* extractText: on the success path the descriptor and the text are
\* returned and the event of the stage completed is the last one delivered,
\* on the failure path the error thrown is the error of the stage that
\* failed, never an error of the cleanup.
C33_CleanupFailureIsSilent ==
  call = "extractText" /\ cleanups = 1 =>
    /\ pc = "done" =>
         /\ result = <<videoInfo, extractedText>>
         /\ events[Len(events)] = Event("completed", 100)
    /\ pc = "failed" =>
         /\ error = thrown
         /\ FailedStages # <<>>
         /\ IsErrorOf(FailedStages[Len(FailedStages)][2], error)

\* A run has returned although a tracked file could not be deleted.
C33_Witness ==
  /\ call = "extractText" /\ pc = "done" /\ DeletionFailed
  /\ Exists(fs, tempFiles[1])

\* A run has failed in the transcription and a tracked file could not be
\* deleted.
C33_WitnessFailure ==
  /\ call = "extractText" /\ pc = "failed" /\ DeletionFailed
  /\ error = TranscriptionError(RequestError)

\* The entries of results whose success flag is false.
FailedEntries == SelectSeq(batch.results, LAMBDA entry : ~entry.success)

\* The links are processed one after another in the order of the input, and
\* a delay is waited after the end of a link that is not the last.
OneAfterAnother ==
  \A j \in 1..Len(batch.trace) :
    LET kind == batch.trace[j][1]
        k == batch.trace[j][2]
    IN CASE kind = "start" ->
              IF j = 1 THEN k = 1 ELSE batch.trace[j - 1] = <<"delay", k - 1>>
         [] kind = "end" -> j > 1 /\ batch.trace[j - 1] = <<"start", k>>
         [] kind = "delay" ->
              j > 1 /\ batch.trace[j - 1] = <<"end", k>> /\ k < Len(batch.links)

\* C34: batchProcess processes the links strictly one after another and the
\* failure of a link does not stop it: when it has finished, results holds
\* one entry per link in the order of the input, errors holds exactly the
\* entries that are no success, and the delay has been waited between two
\* consecutive links and not after the last.
C34_BatchProcess ==
  call = "batchProcess" =>
    /\ OneAfterAnother
    /\ batch.errors = FailedEntries
    /\ \A k \in 1..Len(batch.results) :
         /\ batch.results[k].index = k
         /\ batch.results[k].shareLink = batch.links[k]
    /\ batch.pc = "bp_done" =>
         /\ Len(batch.results) = Len(batch.links)
         /\ batch.trace[Len(batch.trace)] = <<"end", Len(batch.links)>>
         /\ batch.delays = [k \in 1..(Len(batch.links) - 1) |-> DelayWaited(batch.delay)]

\* A batch of three links has finished; the first link failed, the last one
\* succeeded.
C34_Witness ==
  /\ call = "batchProcess" /\ batch.pc = "bp_done"
  /\ Len(batch.links) = 3
  /\ ~batch.results[1].success /\ batch.results[3].success
  /\ Len(batch.errors) = 1
  /\ batch.delays = <<2000, 2000>>

\* C35: parseShareUrl waits for a backoff delay only when another attempt
\* follows: after the last permitted attempt has failed it waits for no
\* delay and fails at once, so that a call with maxRetries = N waits for at
\* most N - 1 delays.
C35_NoDelayAfterLastAttempt ==
  /\ Len(delays) <= (IF maxRetries > 1 THEN maxRetries - 1 ELSE 0)
  /\ \A i \in 1..Len(delays) :
       /\ delays[i].attempt < maxRetries
       /\ delays[i].attempt < attempt
  /\ (call = "parseShareUrl" /\ pc = "failed" /\ IsExhausted(error) /\ maxRetries >= 1) =>
       /\ Len(attemptLog) = maxRetries
       /\ Len(delays) = maxRetries - 1
       /\ \A i \in 1..Len(delays) : delays[i].attempt = i

\* Three attempts have failed, two delays have been waited.
C35_Witness ==
  /\ call = "parseShareUrl" /\ maxRetries = 3 /\ pc = "failed"
  /\ Len(attemptLog) = 3 /\ Len(delays) = 2
  /\ attemptLog[3] = "exception"

\* The only attempt has failed: no delay at all.
C35_WitnessOneAttempt ==
  /\ call = "parseShareUrl" /\ maxRetries = 1 /\ pc = "failed"
  /\ Len(attemptLog) = 1 /\ delays = <<>>

\* The errors with which the parsing of a page fails.
PageParseErrors == {ParseFailError, JsonSyntaxError, NoKeyError, TypeErrorUndefined}

\* C36: on the last permitted attempt (attempt = maxRetries, the only one
\* when maxRetries = 1) an interstitial marker in the page does not fail the
\* attempt by itself: the page is parsed, parseShareUrl returns the
\* descriptor when the embedded JSON is there and valid, and fails only
\* when the parsing fails, with the error of the parsing.
C36_LastAttemptParsesInterstitial ==
  (/\ call = "parseShareUrl" /\ maxRetries >= 1
   /\ Len(attemptLog) = maxRetries
   /\ ShowsInterstitial(attemptLog[maxRetries])) =>
    /\ \A i \in 1..Len(delays) : delays[i].attempt < maxRetries
    /\ IF attemptLog[maxRetries] = "interstitial_parsable"
       THEN /\ pc = "done"
            /\ result = videoInfo
            /\ served.item_list # <<>>
            /\ result = Descriptor(videoId, served.item_list[1])
       ELSE /\ pc = "failed"
            /\ lastError \in PageParseErrors
            /\ error = ExhaustedError(maxRetries, lastError)

\* The only attempt met a page with an interstitial keyword and a valid
\* payload, and the call has returned.
C36_Witness ==
  /\ call = "parseShareUrl" /\ maxRetries = 1 /\ pc = "done"
  /\ attemptLog = <<"interstitial_parsable">>

\* The third and last attempt met an interstitial page that cannot be
\* parsed.
C36_WitnessFailure ==
  /\ call = "parseShareUrl" /\ maxRetries = 3 /\ pc = "failed"
  /\ Len(attemptLog) = 3 /\ attemptLog[3] = "interstitial"

\* C37: whenever downloadVideo returns a path, the file at that path holds
\* the complete body of the video, whatever the download directory held
\* before, a file left by an earlier failed or interrupted download of the
\* same video included.
C37_ReturnedVideoIsComplete ==
  (call = "downloadVideo" /\ pc = "done") =>
    /\ Exists(fs, result)
    /\ fs[result] = "full"

\* The part of it that holds: a file that the call itself has written is
\* complete when the call returns.
WrittenVideoIsComplete ==
  (call = "downloadVideo" /\ pc = "done" /\ result \in written) =>
    Exists(fs, result) /\ fs[result] = "full"

\* C38: whenever extractAudio returns, an audio file exists at the path it
\* returns, and that path differs from the path of the input video.
C38_AudioFileReturned ==
  (call = "extractAudio" /\ pc = "done") =>
    /\ Exists(fs, result)
    /\ result # videoPath

\* The part of it that holds: the path returned is the derived audio path
\* and differs from the path of the video.
ReturnedAudioPathDiffers ==
  (call = "extractAudio" /\ pc = "done") =>
    result = AudioPathOf(videoPath) /\ result # videoPath

\* The paths the call has passed to fs.unlinkSync.
UnlinkedPaths == {unlinkLog[i].path : i \in 1..Len(unlinkLog)}

\* The input video is on the disk as it was when the call was made.
InputVideoUnchanged ==
  /\ Exists(fs, videoPath) <=> Exists(fs0, videoPath)
  /\ Exists(fs0, videoPath) => fs[videoPath] = fs0[videoPath]

\* C39: extractAudio leaves its input video unchanged: for every input
\* path, on success and on a transcoding error alike, the input file is
\* still there with the same content after the call, and the derived audio
\* file is the only file the call creates or deletes.
C39_InputVideoUntouched ==
  call = "extractAudio" =>
    /\ InputVideoUnchanged
    /\ written \cup UnlinkedPaths \subseteq {AudioPathOf(videoPath)} \ {videoPath}

\* The part of it that holds: so it is for a video path that contains
\* ".mp4".
Mp4InputVideoUntouched ==
  call = "extractAudio" /\ AudioPathOf(videoPath) # videoPath =>
    /\ InputVideoUnchanged
    /\ written \cup UnlinkedPaths \subseteq {AudioPathOf(videoPath)}

\* The file a run needs at its position: the video from the end of the
\* download to the end of the audio extraction, the audio from then to the
\* end of the transcription.
Needs(c) ==
  IF c.pc \in {"et_downloaded", "ea_entry", "ea_spawned", "ea_running"}
  THEN {c.videoPath}
  ELSE IF c.pc \in {"et_audio", "tr_entry", "tr_request"}
  THEN {c.audioPath}
  ELSE {}

\* The paths a run has deleted.
DeletedBy(c) ==
  {c.unlinkLog[i].path : i \in {k \in 1..Len(c.unlinkLog) : c.unlinkLog[k].ok}}

\* Run d does not disturb run c: it has not deleted a file that c needs and
\* that is missing now, and it is not writing the video that c works on.
DoesNotDisturb(d, c) ==
  /\ \A p \in Needs(c) : ~Exists(fs, p) => p \notin DeletedBy(d)
  /\ c.videoPath \in Needs(c) => ~(d.pc = "dl_stream" /\ d.videoPath = c.videoPath)

\* C40: when two extractText runs for the same video are interleaved with
\* auto-clean enabled, no run deletes the video or the audio while the
\* other run still needs it, and no run uses a video that the other run is
\* still writing.
C40_SameVideoRunsDoNotDisturb ==
  (call = "extractText" /\ Interleaved /\ autoCleanTempFiles) =>
    /\ DoesNotDisturb(suspended[1], Locals)
    /\ DoesNotDisturb(Locals, suspended[1])

====
